---------------------------- MODULE Spec2Model ----------------------------
(***************************************************************************)
(* Cold-email pipeline: the retry helper, the website scraper, the mail    *)
(* sender, the /api/emails handlers over the SQLite store and the business *)
(* creation handler, each as a state machine translated from its source.   *)
(*                                                                         *)
(* Specifications:                                                         *)
(*   RetrySpec  - retryWithBackoff driving a scripted operation            *)
(*   ScrapeSpec - WebScraperService.scrapeWebsite                          *)
(*   Spec       - POST /api/emails (with ZohoEmailService.sendEmail),      *)
(*                POST /api/emails/drafts and the three PATCH handlers     *)
(*   BizSpec    - POST /api/businesses, handlers interleaving at awaits    *)
(*   FnSpec     - the data functions of FallbackService and the two        *)
(*                assessDataQuality scorers and renderEmail, called once   *)
(*   BdsSpec    - BusinessDataService.getBusinessData over the scraper     *)
(*   MailOnlySpec - ZohoEmailService.sendEmail and validateCredentials     *)
(*                called one after another, with the requests they make    *)
(*   ClaudeSpec - ClaudeService: setApiKey, cleanup and the generation     *)
(*                methods with their retries                               *)
(*   StoreSpec  - the requests that write the emails table, then           *)
(*                GET /api/analytics/overview                              *)
(*   PoolSpec   - one WebScraperService with overlapping scrapeWebsite     *)
(*                calls and cleanup                                        *)
(*   PatchSpec  - PATCH /api/emails/{id} with its answer                   *)
(***************************************************************************)
EXTENDS Integers, Sequences, FiniteSets, TLC

VARIABLES
    retry,      \* one retryWithBackoff call: its arguments, loop state and trace
    scraper,    \* WebScraperService instance and one scrapeWebsite call
    mail,       \* ZohoEmailService instance and one sendEmail call
    db,         \* businesses, emails and email_analytics tables, and the wall clock
    post,       \* one POST /api/emails handler in flight
    biz,        \* the POST /api/businesses handlers in flight
    bds,        \* one BusinessDataService.getBusinessData call
    fn,         \* arguments and result of one call of a data function
    net,        \* the HTTP calls the mail sender has made
    claude,     \* ClaudeService instance, one call on it and the requests made
    pool,       \* WebScraperService instance with overlapping scrapeWebsite calls
    stats,      \* one GET /api/analytics/overview request and its answer
    patch       \* one PATCH /api/emails/{id} request and its answer

vars == <<retry, scraper, mail, db, post, biz, bds, fn, net, claude, pool, stats, patch>>

-----------------------------------------------------------------------------
(* Bounds of the model *)

MaxRetryBudget == 2     \* largest maxRetries argument drawn
MaxScrapeCalls == 2     \* scrapeWebsite calls made on one service instance

-----------------------------------------------------------------------------
(* Strings: String.prototype.toLowerCase and String.prototype.includes *)

UpperAlphabet == "ABCDEFGHIJKLMNOPQRSTUVWXYZ"
LowerAlphabet == "abcdefghijklmnopqrstuvwxyz"

CharAt(s, i) == SubSeq(s, i, i)

LowerChar(c) ==
    IF \E i \in 1..Len(UpperAlphabet) : CharAt(UpperAlphabet, i) = c
    THEN CharAt(LowerAlphabet, CHOOSE i \in 1..Len(UpperAlphabet) : CharAt(UpperAlphabet, i) = c)
    ELSE c

RECURSIVE toLowerCase(_)
toLowerCase(s) ==
    IF Len(s) = 0 THEN ""
    ELSE LowerChar(CharAt(s, 1)) \o toLowerCase(SubSeq(s, 2, Len(s)))

includes(s, t) ==
    \E i \in 0..(Len(s) - Len(t)) : SubSeq(s, i + 1, i + Len(t)) = t

Min(a, b) == IF a <= b THEN a ELSE b

RECURSIVE Pow2(_)
Pow2(n) == IF n = 0 THEN 1 ELSE 2 * Pow2(n - 1)

-----------------------------------------------------------------------------
(* ErrorHandler *)

DelayCap == 30000
JitterRange == 1000

\* Math.random() * 1000 lies in [0, 1000): the two ends and a middle value
Jitters == {0, 500, JitterRange - 1}

\* getRetryDelay without the cap
getRetryDelay_Uncapped(attempt, baseDelay, jitter) ==
    Pow2(attempt) * baseDelay + jitter

getRetryDelay(attempt, baseDelay, jitter) ==
    Min(Pow2(attempt) * baseDelay + jitter, DelayCap)

handleScrapingError(errorMessage) ==
    LET message == toLowerCase(errorMessage) IN
    IF includes(message, "timeout") \/ includes(message, "timed out")
    THEN [code |-> "TIMEOUT_ERROR", retryable |-> TRUE]
    ELSE IF includes(message, "net::err_name_not_resolved") \/ includes(message, "getaddrinfo enotfound")
    THEN [code |-> "INVALID_URL", retryable |-> FALSE]
    ELSE IF includes(message, "403") \/ includes(message, "forbidden") \/ includes(message, "blocked")
    THEN [code |-> "ACCESS_BLOCKED", retryable |-> TRUE]
    ELSE IF includes(message, "404") \/ includes(message, "not found")
    THEN [code |-> "INVALID_URL", retryable |-> FALSE]
    ELSE IF includes(message, "network") \/ includes(message, "connection")
    THEN [code |-> "NETWORK_ERROR", retryable |-> TRUE]
    ELSE IF includes(message, "parse") \/ includes(message, "parsing")
    THEN [code |-> "PARSING_ERROR", retryable |-> FALSE]
    ELSE [code |-> "SCRAPING_ERROR", retryable |-> TRUE]

-----------------------------------------------------------------------------
(* retryWithBackoff *)

\* The loop state of one call.  calls, delays are the trace of what it did.
RetryLoopInit ==
    [pc |-> "call", attempt |-> 0, lastError |-> "", delay |-> 0,
     outcome |-> "pending", value |-> "", calls |-> 0, delays |-> <<>>]

\* Two variants of RetryAfterCall, each with one plausible slip.
RetryAfterCall_OffByOne(r, threw, val, retryOk, maxRetries, baseDelay, jitter) ==
    IF ~threw
    THEN [r EXCEPT !.pc = "done", !.outcome = "returned", !.value = val, !.calls = @ + 1]
    ELSE IF ~retryOk
    THEN [r EXCEPT !.pc = "done", !.outcome = "thrown", !.value = val,
                   !.lastError = val, !.calls = @ + 1]
    ELSE IF r.attempt + 1 < maxRetries
    THEN [r EXCEPT !.pc = "wait", !.lastError = val, !.calls = @ + 1,
                   !.delay = getRetryDelay(r.attempt, baseDelay, jitter)]
    ELSE [r EXCEPT !.pc = "done", !.outcome = "thrown", !.value = val,
                   !.lastError = val, !.calls = @ + 1]

RetryAfterCall_IgnorePredicate(r, threw, val, retryOk, maxRetries, baseDelay, jitter) ==
    IF ~threw
    THEN [r EXCEPT !.pc = "done", !.outcome = "returned", !.value = val, !.calls = @ + 1]
    ELSE IF r.attempt < maxRetries
    THEN [r EXCEPT !.pc = "wait", !.lastError = val, !.calls = @ + 1,
                   !.delay = getRetryDelay(r.attempt, baseDelay, jitter)]
    ELSE [r EXCEPT !.pc = "done", !.outcome = "thrown", !.value = val,
                   !.lastError = val, !.calls = @ + 1]

\* One pass of the loop body: the operation has been awaited and either
\* returned val or threw val; retryOk is (!shouldRetry || shouldRetry(val)).
RetryAfterCall(r, threw, val, retryOk, maxRetries, baseDelay, jitter) ==
    IF ~threw
    THEN [r EXCEPT !.pc = "done", !.outcome = "returned", !.value = val, !.calls = @ + 1]
    ELSE IF ~retryOk
    THEN [r EXCEPT !.pc = "done", !.outcome = "thrown", !.value = val,
                   !.lastError = val, !.calls = @ + 1]
    ELSE IF r.attempt < maxRetries
    THEN [r EXCEPT !.pc = "wait", !.lastError = val, !.calls = @ + 1,
                   !.delay = getRetryDelay(r.attempt, baseDelay, jitter)]
    ELSE \* last attempt: the loop ends and lastError is thrown
         [r EXCEPT !.pc = "done", !.outcome = "thrown", !.value = val,
                   !.lastError = val, !.calls = @ + 1]

\* The timer of the backoff delay fires: next iteration.
RetryAfterWait(r) ==
    [r EXCEPT !.pc = "call", !.attempt = @ + 1, !.delays = Append(@, r.delay)]

-----------------------------------------------------------------------------
(* RetrySpec: retryWithBackoff(operation, maxRetries, baseDelay, shouldRetry) *)
(* where the k-th invocation of operation has the outcome operation[k].      *)

OpErrors == {"E1", "E2"}
OpOutcomes == {"ok"} \cup OpErrors
MaxCalls == MaxRetryBudget + 1
BaseDelays == {1000, 16000}

\* shouldRetry: not passed ("undefined"), or a predicate, given by the set
\* of errors it accepts.
ShouldRetryChoices == [given : {FALSE}, accepts : {{}}] \cup [given : {TRUE}, accepts : SUBSET OpErrors]

RetryArgs ==
    [operation : [1..MaxCalls -> OpOutcomes],
     maxRetries : 0..MaxRetryBudget,
     baseDelay : BaseDelays,
     shouldRetry : ShouldRetryChoices]

Idle == [pc |-> "idle"]

RetryInit ==
    /\ retry \in [args : RetryArgs, loop : {RetryLoopInit}]
    /\ scraper = Idle /\ mail = Idle /\ db = Idle /\ post = Idle /\ biz = Idle
    /\ bds = Idle /\ fn = Idle /\ net = Idle /\ claude = Idle /\ pool = Idle /\ stats = Idle /\ patch = Idle

RetryInvoke ==
    /\ retry.loop.pc = "call"
    /\ LET a == retry.args
           out == a.operation[retry.loop.calls + 1]
           threw == out # "ok"
           retryOk == (~a.shouldRetry.given) \/ (out \in a.shouldRetry.accepts)
       IN \E jitter \in Jitters :
            retry' = [retry EXCEPT !.loop =
                RetryAfterCall(retry.loop, threw, out, retryOk, a.maxRetries, a.baseDelay, jitter)]
    /\ UNCHANGED <<scraper, mail, db, post, biz, bds, fn, net, claude, pool, stats, patch>>

RetryTimer ==
    /\ retry.loop.pc = "wait"
    /\ retry' = [retry EXCEPT !.loop = RetryAfterWait(retry.loop)]
    /\ UNCHANGED <<scraper, mail, db, post, biz, bds, fn, net, claude, pool, stats, patch>>

RetryNext == RetryInvoke \/ RetryTimer

RetrySpec == RetryInit /\ [][RetryNext]_vars

\* The timers fire and the awaited operation settles.
RetryFairSpec == RetrySpec /\ WF_vars(RetryNext)


(* C1: retryWithBackoff, for an operation that fails N times and then      *)
(* succeeds, with shouldRetry true for every error and maxRetries >= N,    *)
(* eventually returns the operation's success value, after exactly N+1     *)
(* invocations of the operation.                                           *)

FailsThenSucceeds(operation, n) ==
    /\ n + 1 <= MaxCalls
    /\ \A k \in 1..n : operation[k] # "ok"
    /\ operation[n + 1] = "ok"

C1_Case(n) ==
    /\ FailsThenSucceeds(retry.args.operation, n)
    /\ retry.args.shouldRetry.given
    /\ retry.args.shouldRetry.accepts = OpErrors
    /\ retry.args.maxRetries >= n

C1_RetryEventuallyReturns ==
    \A n \in 0..MaxRetryBudget :
        C1_Case(n) ~> ( /\ retry.loop.pc = "done"
                        /\ retry.loop.outcome = "returned"
                        /\ retry.loop.value = "ok"
                        /\ retry.loop.calls = n + 1 )

C1_Witness ==
    \E n \in 1..MaxRetryBudget :
        /\ C1_Case(n)
        /\ retry.loop.pc = "done"
        /\ retry.loop.outcome = "returned"
        /\ retry.loop.calls = n + 1
        /\ Len(retry.loop.delays) = n

(* C2: when shouldRetry returns false for the error of the first failed    *)
(* attempt, retryWithBackoff throws that error at once: the operation is   *)
(* invoked exactly once and no backoff delay is waited.                    *)

C2_Case ==
    /\ retry.args.operation[1] # "ok"
    /\ retry.args.shouldRetry.given
    /\ retry.args.operation[1] \notin retry.args.shouldRetry.accepts

C2_NoRetryWhenPredicateFalse ==
    C2_Case =>
        /\ retry.loop.pc # "wait"
        /\ retry.loop.delays = <<>>
        /\ retry.loop.calls <= 1
        /\ retry.loop.pc = "done" =>
            /\ retry.loop.outcome = "thrown"
            /\ retry.loop.value = retry.args.operation[1]
            /\ retry.loop.calls = 1

C2_Witness ==
    /\ C2_Case
    /\ retry.args.maxRetries >= 1
    /\ retry.loop.pc = "done"
    /\ retry.loop.outcome = "thrown"

-----------------------------------------------------------------------------
(* URL parsing as WebScraperService.isValidUrl and FallbackService use it:  *)
(* new URL(url) throws unless the string starts with a scheme and ':', and, *)
(* for the special schemes, names a host.                                   *)

Letters == LowerAlphabet \o UpperAlphabet

IsLetter(c) == \E i \in 1..Len(Letters) : CharAt(Letters, i) = c

IndexOf(s, c) ==
    IF \E i \in 1..Len(s) : CharAt(s, i) = c
    THEN CHOOSE i \in 1..Len(s) : CharAt(s, i) = c /\ \A j \in 1..(i - 1) : CharAt(s, j) # c
    ELSE 0

SpecialSchemes == {"http:", "https:", "ftp:", "ws:", "wss:"}

\* [ok, protocol, hostname] of new URL(url); ok = FALSE when it throws
ParseUrl(url) ==
    LET colon == IndexOf(url, ":")
        scheme == toLowerCase(SubSeq(url, 1, colon))
        rest == SubSeq(url, colon + 1, Len(url))
        afterSlashes == IF Len(rest) >= 2 /\ SubSeq(rest, 1, 2) = "//"
                        THEN SubSeq(rest, 3, Len(rest)) ELSE ""
        slash == IndexOf(afterSlashes, "/")
        host == IF slash = 0 THEN afterSlashes ELSE SubSeq(afterSlashes, 1, slash - 1)
    IN  IF colon <= 1 \/ \E i \in 1..(colon - 1) : ~IsLetter(CharAt(url, i))
        THEN [ok |-> FALSE, protocol |-> "", hostname |-> ""]
        ELSE IF scheme \in SpecialSchemes /\ Len(host) = 0
        THEN [ok |-> FALSE, protocol |-> "", hostname |-> ""]
        ELSE [ok |-> TRUE, protocol |-> scheme, hostname |-> toLowerCase(host)]

isValidUrl_AnyScheme(url) == ParseUrl(url).ok

isValidUrl(url) ==
    LET urlObj == ParseUrl(url) IN
    urlObj.ok /\ (urlObj.protocol = "http:" \/ urlObj.protocol = "https:")

-----------------------------------------------------------------------------
(* The environment of a scrape *)

Urls == {"https://acme.com", "not-a-url", "ftp://acme.com", ""}

LaunchErrors == {"browserType.launch: Executable doesn't exist"}
NewPageErrors == {"browser.newPage: Target closed"}
NavigationErrors ==
    {"page.goto: Timeout 30000ms exceeded.",
     "page.goto: net::ERR_NAME_NOT_RESOLVED",
     "page.goto: net::ERR_BLOCKED_BY_RESPONSE",
     "page.goto: net::ERR_CONNECTION_REFUSED",
     "Failed to parse selector"}
ClosePageErrors == {"page.close: Protocol error", "page.close: parse failure"}

ScrapeMessages ==
    {"", "Invalid URL format"} \cup LaunchErrors \cup NewPageErrors
    \cup NavigationErrors \cup ClosePageErrors

\* The classifier and the URL parser, tabulated over the strings drawn
ScrapingErrorOf == [m \in ScrapeMessages |-> handleScrapingError(m)]
ParsedUrl == [u \in Urls |-> ParseUrl(u)]
ValidUrl == [u \in Urls |-> isValidUrl(u)]

-----------------------------------------------------------------------------
(* FallbackService.getFallbackSuggestions / createFallbackResult *)

NoError == [code |-> "none", retryable |-> FALSE]

getFallbackSuggestions(url, error) ==
    LET domainHints ==
            IF Len(url) > 0 /\ ParsedUrl[url].ok
            THEN << "Try searching for the business on Google",
                    "Check if the website has an About or Contact page",
                    "Look for the business on LinkedIn or other social media" >>
            ELSE << >>
        errorHints ==
            IF error = NoError THEN << >>
            ELSE IF error.code = "TIMEOUT_ERROR"
            THEN << "The website might be slow - try visiting it manually first",
                    "Check if the website is currently accessible" >>
            ELSE IF error.code = "ACCESS_BLOCKED"
            THEN << "Visit the website manually to gather the information",
                    "Look for a Press Kit or Media section" >>
            ELSE IF error.code = "INVALID_URL"
            THEN << "Verify the website URL is correct and complete",
                    "Try adding https:// if it's missing" >>
            ELSE << "Visit the website manually to gather business information" >>
        general ==
            << "Enter the business information manually for the most accurate results",
               "Focus on key details: business name, what they do, and contact information" >>
    IN domainHints \o errorHints \o general

\* ScrapedData, with contactInfo and socialMedia flattened
ScrapedData(businessName, description, services, email, phone, address, linkedin, twitter, facebook, keyContent) ==
    [businessName |-> businessName, description |-> description,
     services |-> services, email |-> email, phone |-> phone,
     address |-> address, linkedin |-> linkedin, twitter |-> twitter,
     facebook |-> facebook, keyContent |-> keyContent]

NoData == ScrapedData("", "", <<>>, "", "", "", "", "", "", <<>>)

\* A ScrapingResult; has is the set of its optional keys that are defined.
ScrapingResult(success, has, data, error, requiresManualInput, suggestions) ==
    [success |-> success, has |-> has, data |-> data, error |-> error,
     requiresManualInput |-> requiresManualInput, suggestions |-> suggestions]

\* WebScraperService.createFallbackResult over FallbackService.createFallbackResult,
\* called without partial data
createFallbackResult(url, error) ==
    ScrapingResult(FALSE, {"error", "requiresManualInput", "suggestions"},
                   NoData, error, TRUE, getFallbackSuggestions(url, error))

-----------------------------------------------------------------------------
(* WebScraperService *)

QualityThreshold == 30      \* 0.3, scores are in hundredths

\* assessDataQuality(data).score, in hundredths
ScraperQualityScore(data) ==
      (IF Len(data.businessName) > 0 /\ data.businessName # "Unknown Business" THEN 40 ELSE 0)
    + (IF Len(data.description) > 20 THEN 30 ELSE 0)
    + (IF Len(data.email) > 0 THEN 15 ELSE 0)
    + (IF Len(data.phone) > 0 THEN 10 ELSE 0)
    + (IF Len(data.services) > 0 THEN 5 ELSE 0)

\* What attemptScraping resolves to
AttemptSuccess(data) == ScrapingResult(TRUE, {"data"}, data, NoError, FALSE, <<>>)
AttemptFailure(message) ==
    ScrapingResult(FALSE, {"error"}, NoData, ScrapingErrorOf[message], FALSE, <<>>)

\* scrapeWebsite after retryWithBackoff has settled (lines 46-72)
ScrapeSettle(url, loop) ==
    IF loop.outcome = "returned"
    THEN LET result == loop.value IN
         IF result.success /\ "data" \in result.has
         THEN IF ScraperQualityScore(result.data) < QualityThreshold
              THEN ScrapingResult(TRUE, {"data", "requiresManualInput", "suggestions", "partialData"},
                                  result.data, NoError, TRUE,
                                  << "The scraped information appears incomplete",
                                     "Please review and add missing details manually" >>
                                  \o getFallbackSuggestions(url, NoError))
              ELSE result
         ELSE result
    ELSE createFallbackResult(url, ScrapingErrorOf[loop.value])

LongDescription == "We build custom websites for small firms"

\* What extractBusinessInfo can return: every field is extracted on its own,
\* and sanitizeContent can shorten a text that passed the length test.
PageSamples ==
    { ScrapedData("Acme", LongDescription, <<"web">>, "hi@acme.com", "555-0100",
                  "1 Main Street, Springfield", "https://linkedin.com/acme", "", "",
                  <<"Fast delivery">>),
      ScrapedData("Acme", "", <<>>, "", "", "", "", "", "", <<>>),
      ScrapedData("Unknown Business", "Short text", <<"web">>, "hi@acme.com", "555-0100",
                  "", "", "https://x.com/acme", "", <<>>),
      ScrapedData("Unknown Business", "", <<>>, "hi@acme.com", "555-0100",
                  "", "", "", "", <<>>),
      ScrapedData("", LongDescription, <<>>, "", "",
                  "", "", "", "", <<>>) }

ScrapeBaseDelay == 1000

ScraperInit ==
    [browser |-> FALSE, page |-> FALSE, pc |-> "idle", calls |-> 0,
     url |-> "", maxRetries |-> 0, loop |-> RetryLoopInit,
     pending |-> AttemptFailure(""), result |-> AttemptFailure(""),
     launches |-> 0, attemptLog |-> <<>>]

ScrapeInit ==
    /\ scraper = ScraperInit
    /\ retry = Idle /\ mail = Idle /\ db = Idle /\ post = Idle /\ biz = Idle
    /\ bds = Idle /\ fn = Idle /\ net = Idle /\ claude = Idle /\ pool = Idle /\ stats = Idle /\ patch = Idle

ScrapeFrame == UNCHANGED <<retry, mail, db, post, biz, bds, fn, net, claude, pool, stats, patch>>

\* attemptScraping begins: the browser is launched on first use
AttemptEntry(s) == IF s.browser THEN "newPage" ELSE "launch"

\* attemptScraping has settled (threw, or returned val): the loop of
\* retryWithBackoff goes on, and scrapeWebsite finishes when the loop does.
AttemptSettled(s, threw, val, jitter) ==
    LET classified == IF threw THEN ScrapingErrorOf[val] ELSE val.error
        loop2 == RetryAfterCall(s.loop, threw, val,
                                threw /\ ScrapingErrorOf[val].retryable,
                                s.maxRetries, ScrapeBaseDelay, jitter)
        logged == Append(s.attemptLog,
                         [failed |-> threw \/ ~val.success,
                          thrown |-> threw,
                          code |-> classified.code,
                          retryable |-> classified.retryable])
    IN  IF loop2.pc = "wait"
        THEN [s EXCEPT !.loop = loop2, !.pc = "wait", !.page = FALSE, !.attemptLog = logged]
        ELSE [s EXCEPT !.loop = loop2, !.pc = "done", !.page = FALSE, !.attemptLog = logged,
                       !.result = ScrapeSettle(s.url, loop2)]

\* scrapeWebsite(url, maxRetries) up to its first await (lines 27-44)
scrapeWebsite(instance, url, maxRetries) ==
    LET s == [instance EXCEPT !.url = url, !.maxRetries = maxRetries,
                              !.calls = @ + 1, !.loop = RetryLoopInit,
                              !.launches = 0, !.attemptLog = <<>>]
    IN  IF ~ValidUrl[url]
        THEN [s EXCEPT !.pc = "done",
                       !.result = createFallbackResult(url, ScrapingErrorOf["Invalid URL format"])]
        ELSE [s EXCEPT !.pc = AttemptEntry(instance)]

\* scrapeWebsite(url, maxRetries) is called
ScrapeCall ==
    /\ scraper.pc \in {"idle", "done"}
    /\ scraper.calls < MaxScrapeCalls
    /\ \E url \in Urls, maxRetries \in 0..MaxRetryBudget :
        scraper' = scrapeWebsite(scraper, url, maxRetries)
    /\ ScrapeFrame

\* await chromium.launch(...)
ScrapeLaunch ==
    /\ scraper.pc = "launch"
    /\ \/ scraper' = [scraper EXCEPT !.browser = TRUE, !.launches = @ + 1, !.pc = "newPage"]
       \/ \E message \in LaunchErrors, jitter \in Jitters :
            scraper' = AttemptSettled([scraper EXCEPT !.launches = @ + 1],
                                      FALSE, AttemptFailure(message), jitter)
    /\ ScrapeFrame

\* await this.browser.newPage()
ScrapeNewPage ==
    /\ scraper.pc = "newPage"
    /\ \/ scraper' = [scraper EXCEPT !.page = TRUE, !.pc = "navigate"]
       \/ \E message \in NewPageErrors, jitter \in Jitters :
            scraper' = AttemptSettled(scraper, FALSE, AttemptFailure(message), jitter)
    /\ ScrapeFrame

\* stealth measures, page.goto, the random delay and the extraction
ScrapeNavigate ==
    /\ scraper.pc = "navigate"
    /\ \/ \E data \in PageSamples :
            scraper' = [scraper EXCEPT !.pending = AttemptSuccess(data), !.pc = "closePage"]
       \/ \E message \in NavigationErrors :
            scraper' = [scraper EXCEPT !.pending = AttemptFailure(message), !.pc = "closePage"]
    /\ ScrapeFrame

\* finally { await page.close() }: a rejection here replaces the result
ScrapeClosePage ==
    /\ scraper.pc = "closePage"
    /\ \E jitter \in Jitters :
        \/ scraper' = AttemptSettled(scraper, FALSE, scraper.pending, jitter)
        \/ \E message \in ClosePageErrors :
            scraper' = AttemptSettled(scraper, TRUE, message, jitter)
    /\ ScrapeFrame

\* the backoff timer of retryWithBackoff fires
ScrapeBackoffTimer ==
    /\ scraper.pc = "wait"
    /\ scraper' = [scraper EXCEPT !.loop = RetryAfterWait(scraper.loop),
                                  !.pc = AttemptEntry(scraper)]
    /\ ScrapeFrame

\* cleanup(), between calls
ScrapeCleanup ==
    /\ scraper.pc \in {"idle", "done"}
    /\ scraper.browser
    /\ scraper' = [scraper EXCEPT !.browser = FALSE]
    /\ ScrapeFrame

ScrapeNext ==
    \/ ScrapeCall
    \/ ScrapeLaunch
    \/ ScrapeNewPage
    \/ ScrapeNavigate
    \/ ScrapeClosePage
    \/ ScrapeBackoffTimer
    \/ ScrapeCleanup

ScrapeSpec == ScrapeInit /\ [][ScrapeNext]_vars

(* C3: scrapeWebsite called with a string that is not a valid http/https   *)
(* URL returns success=false and requiresManualInput=true with error code  *)
(* INVALID_URL flagged non-retryable, without any scrape attempt (no       *)
(* browser launch, no retry).                                              *)

C3_InvalidUrlShortCircuits ==
    (scraper.pc = "done" /\ ~ValidUrl[scraper.url]) =>
        /\ scraper.result.success = FALSE
        /\ "requiresManualInput" \in scraper.result.has
        /\ scraper.result.requiresManualInput
        /\ scraper.result.error.code = "INVALID_URL"
        /\ scraper.result.error.retryable = FALSE
        /\ scraper.launches = 0
        /\ scraper.attemptLog = <<>>

(* C4: scrapeWebsite retry discipline: after an attempt that fails with an *)
(* error kind flagged retryable, further attempts are made, up to          *)
(* maxRetries additional ones; after an attempt that fails with a          *)
(* non-retryable kind no further attempt is made.                          *)

C4_ScrapeRetryDiscipline ==
    (scraper.pc = "done" /\ ValidUrl[scraper.url]) =>
        LET log == scraper.attemptLog
            n == Len(log)
        IN  /\ n <= scraper.maxRetries + 1
            /\ \A k \in 1..(n - 1) : log[k].failed /\ log[k].retryable
            /\ (n >= 1 /\ log[n].failed /\ log[n].retryable) => n = scraper.maxRetries + 1

(* C5: every result of scrapeWebsite with success=false, whatever the      *)
(* cause, carries an error with a reason code, requiresManualInput=true    *)
(* and a non-empty list of manual-input suggestions.                       *)

C5_FailureCarriesGuidance ==
    (scraper.pc = "done" /\ ~scraper.result.success) =>
        /\ "error" \in scraper.result.has
        /\ scraper.result.error.code # "none"
        /\ "requiresManualInput" \in scraper.result.has
        /\ scraper.result.requiresManualInput
        /\ "suggestions" \in scraper.result.has
        /\ Len(scraper.result.suggestions) > 0

-----------------------------------------------------------------------------
(* ErrorHandler.handleEmailServiceError *)

handleEmailServiceError(errorMessage) ==
    LET message == toLowerCase(errorMessage)
        has(t) == includes(message, t)
    IN
    IF has("authentication") \/ has("401") \/ has("unauthorized")
    THEN [code |-> "EMAIL_AUTH_ERROR", retryable |-> FALSE]
    ELSE IF has("refresh_token") \/ has("invalid_grant")
    THEN [code |-> "EMAIL_AUTH_ERROR", retryable |-> FALSE]
    ELSE IF has("client_id") \/ has("client_secret")
    THEN [code |-> "EMAIL_AUTH_ERROR", retryable |-> FALSE]
    ELSE IF has("invalid recipient") \/ has("invalid email") \/ has("invalid_email")
    THEN [code |-> "EMAIL_INVALID_RECIPIENT", retryable |-> FALSE]
    ELSE IF has("blocked") \/ has("blacklisted")
    THEN [code |-> "EMAIL_INVALID_RECIPIENT", retryable |-> FALSE]
    ELSE IF has("content") \/ has("spam")
    THEN [code |-> "EMAIL_SEND_ERROR", retryable |-> FALSE]
    ELSE IF has("quota") \/ has("limit") \/ has("rate limit")
    THEN [code |-> "EMAIL_SEND_ERROR", retryable |-> TRUE]
    ELSE IF has("429") \/ has("too many requests")
    THEN [code |-> "EMAIL_SEND_ERROR", retryable |-> TRUE]
    ELSE IF has("500") \/ has("internal server error")
    THEN [code |-> "EMAIL_SEND_ERROR", retryable |-> TRUE]
    ELSE IF has("502") \/ has("503") \/ has("504")
    THEN [code |-> "EMAIL_SEND_ERROR", retryable |-> TRUE]
    ELSE IF has("timeout") \/ has("timed out")
    THEN [code |-> "EMAIL_SEND_ERROR", retryable |-> TRUE]
    ELSE IF has("network") \/ has("connection")
    THEN [code |-> "EMAIL_SEND_ERROR", retryable |-> TRUE]
    ELSE IF has("missing zoho configuration") \/ has("not configured")
    THEN [code |-> "EMAIL_AUTH_ERROR", retryable |-> FALSE]
    ELSE IF has("account") \/ has("domain")
    THEN [code |-> "EMAIL_AUTH_ERROR", retryable |-> FALSE]
    ELSE [code |-> "EMAIL_SEND_ERROR", retryable |-> TRUE]

-----------------------------------------------------------------------------
(* ZohoEmailService: validation and response handling *)

CountChar(s, c) == Cardinality({i \in 1..Len(s) : CharAt(s, i) = c})

\* s.trim().length === 0, for strings whose only white space is the blank
IsBlank(s) == \A i \in 1..Len(s) : CharAt(s, i) = " "

\* /^[^\s@]+@[^\s@]+\.[^\s@]+$/
isValidEmail(email) ==
    LET at == IndexOf(email, "@")
        domain == SubSeq(email, at + 1, Len(email))
    IN  /\ CountChar(email, "@") = 1
        /\ CountChar(email, " ") = 0
        /\ at > 1
        /\ \E j \in 2..(Len(domain) - 1) : CharAt(domain, j) = "."

\* The message validateEmailData throws, "" when it returns
validateEmailData(emailData) ==
    IF Len(emailData.to) = 0 \/ ~isValidEmail(emailData.to)
    THEN "Invalid recipient email address: " \o emailData.to
    ELSE IF IsBlank(emailData.subject)
    THEN "Email subject is required"
    ELSE IF IsBlank(emailData.htmlContent)
    THEN "Email content is required"
    ELSE IF Len(emailData.fromEmail) = 0 \/ ~isValidEmail(emailData.fromEmail)
    THEN "Invalid sender email address: " \o emailData.fromEmail
    ELSE IF IsBlank(emailData.fromName)
    THEN "Sender name is required"
    ELSE ""

HttpOk == 200

\* The message refreshAccessToken throws for a response, "" when it stores the token.
\* status 0 stands for fetch itself rejecting.
refreshAccessTokenError(response) ==
    IF response.status = 0 THEN "fetch failed"
    ELSE IF ~response.ok THEN
        IF response.status = 400
        THEN "Invalid refresh token or client credentials: " \o response.text
        ELSE IF response.status = 401
        THEN "Authentication failed - refresh token may be expired: " \o response.text
        ELSE IF response.status = 403
        THEN "Access forbidden - check your Zoho account permissions: " \o response.text
        ELSE "Zoho auth failed (" \o response.statusText \o "): " \o response.text
    ELSE IF Len(response.access_token) = 0
    THEN "Invalid auth response: missing access token"
    ELSE ""

\* The message performEmailSend throws for the response of the send call, "" when
\* it returns a SendResult
performEmailSendError(response) ==
    IF response.status = 0 THEN "fetch failed"
    ELSE IF ~response.ok THEN
        IF response.status = 401 THEN "Authentication failed: " \o response.text
        ELSE IF response.status = 403 THEN "Access forbidden: " \o response.text
        ELSE IF response.status = 429 THEN "Rate limit exceeded: " \o response.text
        ELSE IF response.status = 500 THEN "Internal server error: " \o response.text
        ELSE IF response.status \in {502, 503, 504} THEN "Service unavailable: " \o response.text
        ELSE "Zoho API error (" \o response.statusText \o "): " \o response.text
    ELSE IF response.code # HttpOk
    THEN "Zoho send failed: " \o response.description
    ELSE ""

determineSendStatus(response) ==
    IF response.code = HttpOk /\ Len(response.messageId) > 0
    THEN LET status == toLowerCase(response.msgStatus) IN
         IF status \in {"sent", "queued", "delivered"} THEN "sent"
         ELSE IF status \in {"failed", "rejected", "bounced"} THEN "failed"
         ELSE "sent"
    ELSE "failed"

(* The provider *)

TokenResponse(ok, status, statusText, text, token, expiresIn) ==
    [ok |-> ok, status |-> status, statusText |-> statusText, text |-> text,
     access_token |-> token, expires_in |-> expiresIn]

TokenResponses ==
    { TokenResponse(TRUE, 200, "200", "", "tok-1", 1),
      TokenResponse(TRUE, 200, "200", "", "", 0),
      TokenResponse(FALSE, 400, "400", "invalid_code", "", 0),
      TokenResponse(FALSE, 401, "401", "Unauthorized", "", 0),
      TokenResponse(FALSE, 403, "403", "Forbidden", "", 0),
      TokenResponse(FALSE, 500, "500", "Internal Server Error", "", 0),
      TokenResponse(FALSE, 0, "", "", "", 0) }

SendResponse(ok, status, statusText, text, code, description, messageId, msgStatus) ==
    [ok |-> ok, status |-> status, statusText |-> statusText, text |-> text,
     code |-> code, description |-> description,
     messageId |-> messageId, msgStatus |-> msgStatus]

SendErrorResponse(status, statusText, text) ==
    SendResponse(FALSE, status, statusText, text, 0, "", "", "")

SendResponses ==
    { SendResponse(TRUE, 200, "200", "", 200, "Success", "msg-1", "sent"),
      SendResponse(TRUE, 200, "200", "", 200, "Success", "msg-1", "Queued"),
      SendResponse(TRUE, 200, "200", "", 200, "Success", "msg-1", "failed"),
      SendResponse(TRUE, 200, "200", "", 200, "Success", "msg-1", "rejected"),
      SendResponse(TRUE, 200, "200", "", 200, "Success", "msg-1", "Bounced"),
      SendResponse(TRUE, 200, "200", "", 200, "Success", "msg-1", "processing"),
      SendResponse(TRUE, 200, "200", "", 200, "Success", "", "sent"),
      SendResponse(TRUE, 200, "200", "", 500, "Mailbox unavailable", "", ""),
      SendErrorResponse(401, "401", "Unauthorized"),
      SendErrorResponse(403, "403", "Forbidden"),
      SendErrorResponse(429, "429", "Too Many Requests"),
      SendErrorResponse(500, "500", "Internal Server Error"),
      SendErrorResponse(503, "503", "Service Unavailable"),
      SendErrorResponse(418, "418", "teapot"),
      SendErrorResponse(0, "", "") }

NoSendResponse == SendErrorResponse(0, "", "none")

(* The requests of POST /api/emails *)

DefaultFromName == "Cold Email System"

PostBody(businessId, subject, htmlContent, recipientEmail, fromName, fromEmail) ==
    [businessId |-> businessId, subject |-> subject, htmlContent |-> htmlContent,
     recipientEmail |-> recipientEmail, fromName |-> fromName, fromEmail |-> fromEmail]

\* businessId 0 and the empty strings stand for absent fields
PostBodies ==
    { PostBody(1, "Hello", "<p>Hi</p>", "bob@acme.com", "", "me@zoho.com"),
      PostBody(1, "Hello", "<p>Hi</p>", "bob@acme.com", "Ann", "me@zoho.com"),
      PostBody(1, "Hello", "<p>Hi</p>", "not-an-email", "", "me@zoho.com"),
      PostBody(1, " ", "<p>Hi</p>", "bob@acme.com", "", "me@zoho.com"),
      PostBody(1, "Hello", " ", "bob@acme.com", "", "me@zoho.com"),
      PostBody(1, "Hello", "<p>Hi</p>", "bob@acme.com", "", ""),
      PostBody(1, "Hello", "<p>Hi</p>", "bob@acme.com", " ", "me@zoho.com"),
      PostBody(1, "Hello", "<p>Hi</p>", "", "", "me@zoho.com"),
      PostBody(0, "Hello", "<p>Hi</p>", "bob@acme.com", "", "me@zoho.com"),
      PostBody(2, "Hello", "<p>Hi</p>", "bob@acme.com", "", "me@zoho.com") }

\* The EmailData the handler passes to sendEmail (ZOHO_FROM_EMAIL unset)
EmailDataOf(body) ==
    [to |-> body.recipientEmail, subject |-> body.subject, htmlContent |-> body.htmlContent,
     fromName |-> IF Len(body.fromName) > 0 THEN body.fromName ELSE DefaultFromName,
     fromEmail |-> body.fromEmail]

\* What sendEmail is given and answered when it is called on its own: also a
\* recipient without @ that holds digits, a 429 whose body names a block
MailBodies ==
    PostBodies \cup { PostBody(1, "Hello", "<p>Hi</p>", "room401", "", "me@zoho.com") }

MailSendResponses ==
    SendResponses \cup { SendErrorResponse(429, "429", "Temporarily blocked") }

\* also a token that has expired by the time it is stored
MailTokenResponses ==
    TokenResponses \cup { TokenResponse(TRUE, 200, "200", "", "tok-2", 0) }

MailMessages ==
    {""} \cup {validateEmailData(EmailDataOf(b)) : b \in MailBodies}
         \cup {refreshAccessTokenError(r) : r \in TokenResponses}
         \cup {performEmailSendError(r) : r \in MailSendResponses}

EmailErrorOf == [m \in MailMessages |-> handleEmailServiceError(m)]
ValidationOf == [b \in MailBodies |-> validateEmailData(EmailDataOf(b))]
SendStatusOf == [r \in MailSendResponses |-> determineSendStatus(r)]

-----------------------------------------------------------------------------
(* DatabaseService over the schema: businesses, emails, email_analytics *)

MaxEmails == 1          \* emails rows, when POST /api/emails and the mail sender run
MaxEvents == 2          \* email_analytics rows
MaxClock == 2
MaxStoreEmails == 2     \* emails rows, when only the handlers over the store run

\* sent_at NULL
NullTime == 0

SendStatuses == {"draft", "sent", "failed"}
ResponseStatuses == {"no_response", "good_response", "bad_response"}

\* contact_email NULL
NoEmail == ""

\* A row as INSERT INTO businesses leaves it (website_url, description and
\* scraped_data, which no query here reads, are left out)
BusinessRow(businessData) ==
    [name |-> businessData.name, contactEmail |-> businessData.contactEmail]

\* The insert naming send_status 'sent' instead of leaving the column default
EmailRow_MarkedSent(draft) ==
    [businessId |-> draft.businessId,
     subject |-> draft.subject, htmlContent |-> draft.htmlContent,
     sendStatus |-> "sent", responseStatus |-> "no_response", sentAt |-> NullTime]

\* A row as INSERT INTO emails leaves it: send_status and response_status take
\* the column defaults, sent_at is NULL. personal_notes, created_at and
\* updated_at, which no handler here reads, are left out.
EmailRow(draft) ==
    [businessId |-> draft.businessId,
     subject |-> draft.subject, htmlContent |-> draft.htmlContent,
     sendStatus |-> "draft", responseStatus |-> "no_response", sentAt |-> NullTime]

EmailExists(d, id) == id \in 1..Len(d.emails)

\* FOREIGN KEY (business_id) REFERENCES businesses(id), with foreign_keys = ON
BusinessExists(d, id) == id \in 1..Len(d.businesses)

\* createBusiness: contactEmail || null
createBusiness(d, businessData) == [d EXCEPT !.businesses = Append(@, BusinessRow(businessData))]

\* findBusinessByEmail: the id of the first row with that contact_email, 0 for null
findBusinessByEmail(d, email) ==
    LET found == {i \in 1..Len(d.businesses) : d.businesses[i].contactEmail = email}
    IN  IF found = {} THEN 0 ELSE CHOOSE i \in found : \A j \in found : i <= j

saveDraftThrows(d, draft) == ~BusinessExists(d, draft.businessId)

saveDraft(d, draft) == [d EXCEPT !.emails = Append(@, EmailRow(draft))]

lastInsertRowid(d) == Len(d.emails)

\* The UPDATE writing the column default of response_status as well
updateEmailStatus_ResetsResponse(d, emailId, status, sentAt) ==
    IF EmailExists(d, emailId)
    THEN [d EXCEPT !.emails[emailId] = [@ EXCEPT !.sendStatus = status, !.sentAt = sentAt,
                                                 !.responseStatus = "no_response"]]
    ELSE d

\* sentAt is NullTime when the caller passes no date
updateEmailStatus(d, emailId, status, sentAt) ==
    IF EmailExists(d, emailId)
    THEN [d EXCEPT !.emails[emailId] = [@ EXCEPT !.sendStatus = status, !.sentAt = sentAt]]
    ELSE d

\* CHECK (response_status IN ('no_response', 'good_response', 'bad_response'))
updateResponseStatusThrows(d, emailId, status) ==
    EmailExists(d, emailId) /\ status \notin ResponseStatuses

updateResponseStatus(d, emailId, status) ==
    IF EmailExists(d, emailId)
    THEN [d EXCEPT !.emails[emailId].responseStatus = status]
    ELSE d

\* FOREIGN KEY (email_id) REFERENCES emails(id)
recordEmailEventThrows(d, emailId) == ~EmailExists(d, emailId)

\* The insert left out
recordEmailEvent_Dropped(d, emailId, eventType) == d

recordEmailEvent(d, emailId, eventType) ==
    [d EXCEPT !.analytics = Append(@, [emailId |-> emailId, eventType |-> eventType])]

EventsOf(d, emailId, eventType) ==
    {i \in 1..Len(d.analytics) :
        d.analytics[i].emailId = emailId /\ d.analytics[i].eventType = eventType}

\* a handler that stamps sent_at whatever the status
SentAtFor_Always(status, now) == now

\* new Date() in a handler that sets sent_at
SentAtFor(status, now) == IF status = "sent" THEN now ELSE NullTime

DbInit ==
    [businesses |-> <<BusinessRow([name |-> "Acme", contactEmail |-> "bob@acme.com"])>>,
     emails |-> <<>>, analytics |-> <<>>, now |-> 1]

-----------------------------------------------------------------------------
(* ZohoEmailService: the send loop *)

MailMaxRetries == 2
MailBaseDelay == 1000
MailJitters == {0, JitterRange - 1}

MailFailure(code) == [success |-> FALSE, status |-> "", messageId |-> "", code |-> code]
MailSuccess(status, messageId) ==
    [success |-> TRUE, status |-> status, messageId |-> messageId, code |-> ""]
NoMailResult == [success |-> FALSE, status |-> "", messageId |-> "", code |-> "none"]

MailInit ==
    [configured |-> TRUE, accessToken |-> "", tokenExpiry |-> NullTime,
     pc |-> "idle", body |-> CHOOSE b \in PostBodies : TRUE, attempt |-> 0,
     delay |-> 0, result |-> NoMailResult, response |-> NoSendResponse]

\* ensureValidAccessToken: accessToken && tokenExpiry && tokenExpiry > new Date()
TokenIsFresh(m, now) ==
    /\ m.accessToken # ""
    /\ m.tokenExpiry # NullTime
    /\ m.tokenExpiry > now

\* The catch block of retryEmailSend, and the return after the loop. lastError
\* is read only by that return, which classifies it again.
MailCatch(m, message, jitter) ==
    LET userError == EmailErrorOf[message]
        failed == [m EXCEPT !.pc = "done", !.result = MailFailure(userError.code)]
    IN  IF ~userError.retryable THEN failed
        ELSE IF m.attempt < MailMaxRetries
        THEN [m EXCEPT !.pc = "wait",
                       !.delay = getRetryDelay(m.attempt, MailBaseDelay, jitter)]
        ELSE failed

\* performEmailSend that refreshes the token on every attempt
MailBeginAttempt_AlwaysRefresh(m, now, jitter) ==
    IF ValidationOf[m.body] # ""
    THEN MailCatch(m, ValidationOf[m.body], jitter)
    ELSE [m EXCEPT !.pc = "token"]

\* performEmailSend up to its first network call
MailBeginAttempt(m, now, jitter) ==
    IF ValidationOf[m.body] # ""
    THEN MailCatch(m, ValidationOf[m.body], jitter)
    ELSE IF TokenIsFresh(m, now)
    THEN [m EXCEPT !.pc = "send"]
    ELSE [m EXCEPT !.pc = "token"]

\* sendEmail up to its first await
sendEmail(m, body, now, jitter) ==
    LET started == [m EXCEPT !.body = body]
    IN  IF ~m.configured
        THEN [started EXCEPT !.pc = "done", !.result = MailFailure("EMAIL_AUTH_ERROR")]
        ELSE MailBeginAttempt(started, now, jitter)

\* refreshAccessToken once the token endpoint has answered, then the send call
MailAfterToken(m, response, now, jitter) ==
    IF refreshAccessTokenError(response) # ""
    THEN MailCatch(m, refreshAccessTokenError(response), jitter)
    ELSE [m EXCEPT !.accessToken = response.access_token,
                   !.tokenExpiry = now + response.expires_in,
                   !.pc = "send"]

\* performEmailSend once the send endpoint has answered
MailAfterSend(m, response, jitter) ==
    IF performEmailSendError(response) # ""
    THEN MailCatch(m, performEmailSendError(response), jitter)
    ELSE [m EXCEPT !.pc = "done", !.response = response,
                   !.result = MailSuccess(SendStatusOf[response], response.messageId)]

\* sendEmail has returned to its caller: the locals of the call are gone, the
\* cached token stays
MailReturned(m) ==
    [MailInit EXCEPT !.configured = m.configured, !.accessToken = m.accessToken,
                     !.tokenExpiry = m.tokenExpiry]

-----------------------------------------------------------------------------
(* The route handlers over emails: POST /api/emails, POST /api/emails/drafts,
   PATCH send-status, PATCH response-status, PATCH /api/emails/{id} *)

\* The locals of one POST /api/emails handler. dbFault: a database write of the
\* handler threw; touched: another request wrote to the email it created.
PostInit ==
    [pc |-> "idle", body |-> CHOOSE b \in PostBodies : TRUE, emailId |-> 0,
     sendResult |-> NoMailResult, response |-> 0, dbFault |-> FALSE, touched |-> FALSE]

\* The handler answers; the request body goes with its frame
PostAnswer(p, status) ==
    [p EXCEPT !.pc = "done", !.response = status, !.body = PostInit.body]

\* Another request wrote to the email this POST created
Touch(id) ==
    IF post.pc # "idle" /\ post.emailId = id THEN [post EXCEPT !.touched = TRUE] ELSE post

MissingRequired(body) ==
    \/ body.businessId = 0
    \/ body.subject = ""
    \/ body.htmlContent = ""
    \/ body.recipientEmail = ""

Init ==
    /\ db = DbInit
    /\ \E c \in BOOLEAN : mail = [MailInit EXCEPT !.configured = c]
    /\ post = PostInit
    /\ retry = Idle
    /\ scraper = Idle
    /\ biz = Idle
    /\ bds = Idle /\ fn = Idle /\ net = Idle /\ claude = Idle /\ pool = Idle /\ stats = Idle /\ patch = Idle

ApiFrame == UNCHANGED <<retry, scraper, biz, bds, fn, net, claude, pool, stats, patch>>

\* The rows the model lets the tables take: fewer while a send is modelled
StoreOnly == mail = Idle
EmailCap == IF StoreOnly THEN MaxStoreEmails ELSE MaxEmails

\* POST /api/emails up to and including saveDraft; fault: the insert throws
PostRequest(body, fault) ==
    /\ post.pc \in {"idle", "done"}
    /\ mail.pc = "idle"
    /\ LET fresh == [PostInit EXCEPT !.body = body] IN
       \/ /\ MissingRequired(body)
          /\ post' = PostAnswer(PostInit, 400)
          /\ UNCHANGED db
       \/ /\ ~MissingRequired(body)
          /\ fault \/ saveDraftThrows(db, body)
          /\ post' = PostAnswer([PostInit EXCEPT !.dbFault = TRUE], 500)
          /\ UNCHANGED db
       \/ /\ ~MissingRequired(body)
          /\ ~fault /\ ~saveDraftThrows(db, body)
          /\ Len(db.emails) < EmailCap
          /\ db' = saveDraft(db, body)
          /\ post' = [fresh EXCEPT !.pc = "saved", !.emailId = lastInsertRowid(db')]
    /\ UNCHANGED mail
    /\ ApiFrame

\* The handler calls zohoEmailService.sendEmail
PostSend(jitter) ==
    /\ post.pc = "saved"
    /\ mail' = sendEmail(mail, post.body, db.now, jitter)
    /\ post' = [post EXCEPT !.pc = "sending"]
    /\ UNCHANGED db
    /\ ApiFrame

MailTokenResponse(response, jitter) ==
    /\ mail.pc = "token"
    /\ mail' = MailAfterToken(mail, response, db.now, jitter)
    /\ UNCHANGED <<db, post>>
    /\ ApiFrame

MailSendResponse(response, jitter) ==
    /\ mail.pc = "send"
    /\ mail' = MailAfterSend(mail, response, jitter)
    /\ UNCHANGED <<db, post>>
    /\ ApiFrame

\* The backoff timer fires: the loop's next attempt
MailBackoffTimer(jitter) ==
    /\ mail.pc = "wait"
    /\ mail' = MailBeginAttempt([mail EXCEPT !.attempt = @ + 1, !.delay = 0], db.now, jitter)
    /\ UNCHANGED <<db, post>>
    /\ ApiFrame

\* sendEmail has returned: the first updateEmailStatus of the inner try
PostUpdateStatus(fault) ==
    /\ post.pc = "sending"
    /\ mail.pc = "done"
    /\ mail' = MailReturned(mail)
    /\ LET got == [post EXCEPT !.sendResult = mail.result] IN
       IF fault
       THEN /\ post' = [got EXCEPT !.pc = "catch", !.dbFault = TRUE]
            /\ UNCHANGED db
       ELSE IF mail.result.success
       THEN /\ db' = updateEmailStatus(db, post.emailId, "sent", db.now)
            /\ post' = [got EXCEPT !.pc = "record"]
       ELSE /\ db' = updateEmailStatus(db, post.emailId, "failed", NullTime)
            /\ post' = PostAnswer(got, 500)
    /\ ApiFrame

PostRecordEvent(fault) ==
    /\ post.pc = "record"
    /\ IF fault \/ recordEmailEventThrows(db, post.emailId)
       THEN /\ post' = [post EXCEPT !.pc = "catch", !.dbFault = TRUE]
            /\ UNCHANGED db
       ELSE /\ Len(db.analytics) < MaxEvents
            /\ db' = recordEmailEvent(db, post.emailId, "sent")
            /\ post' = PostAnswer(post, HttpOk)
    /\ UNCHANGED mail
    /\ ApiFrame

\* catch (sendError): updateEmailStatus(emailId, 'failed'); a throw here reaches
\* the outer catch
PostCatch(fault) ==
    /\ post.pc = "catch"
    /\ IF fault
       THEN /\ post' = PostAnswer(post, 500)
            /\ UNCHANGED db
       ELSE /\ db' = updateEmailStatus(db, post.emailId, "failed", NullTime)
            /\ post' = PostAnswer(post, 500)
    /\ UNCHANGED mail
    /\ ApiFrame

\* POST /api/emails/drafts; fault: the insert throws
SaveDraftRequest(body, fault) ==
    /\ IF body.businessId = 0 \/ body.subject = "" \/ body.htmlContent = ""
       THEN UNCHANGED db
       ELSE IF fault \/ saveDraftThrows(db, body)
       THEN UNCHANGED db
       ELSE /\ Len(db.emails) < EmailCap
            /\ db' = saveDraft(db, body)
    /\ UNCHANGED <<mail, post>>
    /\ ApiFrame

\* Ids a PATCH may name: 0 stands for a path segment parseInt cannot read
PatchIds == 0..(MaxEmails + 1)

PatchFaults == {"none", "first", "second"}

\* What the send-status PATCH writes when nothing throws
SendStatusPatched(d, id, status) ==
    LET updated == updateEmailStatus(d, id, status, SentAtFor(status, d.now))
    IN  IF status = "sent" THEN recordEmailEvent(updated, id, "sent") ELSE updated

\* What the response-status PATCH writes when nothing throws
ResponseStatusPatched(d, id, responseStatus) ==
    LET updated == updateResponseStatus(d, id, responseStatus)
    IN  IF responseStatus \in {"good_response", "bad_response"}
        THEN recordEmailEvent(updated, id, "replied")
        ELSE updated

\* PATCH send-status; fault "first": updateEmailStatus throws, "second":
\* recordEmailEvent throws
PatchSendStatus(id, status, fault) ==
    LET updated == updateEmailStatus(db, id, status, SentAtFor(status, db.now))
    IN
    /\ IF id = 0 \/ status \notin SendStatuses
       THEN UNCHANGED <<db, post>>
       ELSE IF ~EmailExists(db, id)
       THEN UNCHANGED <<db, post>>
       ELSE IF fault = "first"
       THEN UNCHANGED <<db, post>>
       ELSE IF status = "sent" /\ (fault = "second" \/ recordEmailEventThrows(updated, id))
       THEN /\ db' = updated
            /\ post' = Touch(id)
       ELSE /\ status = "sent" => Len(db.analytics) < MaxEvents
            /\ db' = SendStatusPatched(db, id, status)
            /\ post' = Touch(id)
    /\ UNCHANGED mail
    /\ ApiFrame

\* PATCH response-status
PatchResponseStatus(id, responseStatus, fault) ==
    LET updated == updateResponseStatus(db, id, responseStatus)
        replied == responseStatus \in {"good_response", "bad_response"}
    IN
    /\ IF id = 0 \/ responseStatus \notin {"no_response", "good_response", "bad_response"}
       THEN UNCHANGED <<db, post>>
       ELSE IF ~EmailExists(db, id)
       THEN UNCHANGED <<db, post>>
       ELSE IF fault = "first" \/ updateResponseStatusThrows(db, id, responseStatus)
       THEN UNCHANGED <<db, post>>
       ELSE IF replied /\ (fault = "second" \/ recordEmailEventThrows(updated, id))
       THEN /\ db' = updated
            /\ post' = Touch(id)
       ELSE /\ replied => Len(db.analytics) < MaxEvents
            /\ db' = ResponseStatusPatched(db, id, responseStatus)
            /\ post' = Touch(id)
    /\ UNCHANGED mail
    /\ ApiFrame

\* The bodies of PATCH /api/emails/{id}; "" stands for an absent field
PatchBody(htmlContent, sendStatus, responseStatus) ==
    [htmlContent |-> htmlContent, sendStatus |-> sendStatus, responseStatus |-> responseStatus]

PatchBodies ==
    { PatchBody("", "", ""),
      PatchBody("", "draft", ""), PatchBody("", "sent", ""), PatchBody("", "failed", ""),
      PatchBody("", "bogus", ""),
      PatchBody("", "", "no_response"), PatchBody("", "", "good_response"),
      PatchBody("", "", "unsent"), PatchBody("", "", "bogus"),
      PatchBody("", "sent", "bad_response"), PatchBody("", "sent", "bogus"),
      PatchBody("", "failed", "unsent"),
      PatchBody("<p>New</p>", "", ""), PatchBody("<p>New</p>", "sent", "") }

\* PATCH /api/emails/{id} on the store d: the store it leaves, the status it
\* answers with, and whether it went as far as the writes. fault "first":
\* updateEmailStatus throws, "second": updateResponseStatus throws.
\* DatabaseService has no updateEmailContent, so the call on it throws a
\* TypeError, which the catch answers with 500.
PatchEmailHandler(d, id, body, fault) ==
    LET statusSet == updateEmailStatus(d, id, body.sendStatus, SentAtFor(body.sendStatus, d.now))
        afterStatus == IF body.sendStatus # "" THEN statusSet ELSE d
        Answer(store, status, wrote) == [db |-> store, status |-> status, wrote |-> wrote]
    IN
    IF id = 0
    THEN Answer(d, 400, FALSE)
    ELSE IF ~EmailExists(d, id)
    THEN Answer(d, 404, FALSE)
    ELSE IF body.htmlContent # ""
    THEN Answer(d, 500, FALSE)
    ELSE IF body.sendStatus # "" /\ body.sendStatus \notin {"draft", "sent", "failed"}
    THEN Answer(d, 400, FALSE)
    ELSE IF body.sendStatus # "" /\ fault = "first"
    THEN Answer(d, 500, FALSE)
    ELSE IF /\ body.responseStatus # ""
            /\ body.responseStatus \notin {"unsent", "no_response", "good_response", "bad_response"}
    THEN Answer(afterStatus, 400, TRUE)
    ELSE IF /\ body.responseStatus # ""
            /\ (fault = "second" \/ updateResponseStatusThrows(afterStatus, id, body.responseStatus))
    THEN Answer(afterStatus, 500, TRUE)
    ELSE Answer(IF body.responseStatus # ""
                THEN updateResponseStatus(afterStatus, id, body.responseStatus)
                ELSE afterStatus, 200, TRUE)

\* PATCH /api/emails/{id}
PatchEmail(id, body, fault) ==
    LET answer == PatchEmailHandler(db, id, body, fault) IN
    /\ db' = answer.db
    /\ post' = IF answer.wrote THEN Touch(id) ELSE post
    /\ UNCHANGED mail
    /\ ApiFrame

\* Time passes
Tick ==
    /\ db.now < MaxClock
    /\ db' = [db EXCEPT !.now = @ + 1]
    /\ UNCHANGED <<mail, post>>
    /\ ApiFrame

Next ==
    \/ \E body \in PostBodies, fault \in BOOLEAN : PostRequest(body, fault)
    \/ \E jitter \in MailJitters : PostSend(jitter)
    \/ \E response \in TokenResponses, jitter \in MailJitters : MailTokenResponse(response, jitter)
    \/ \E response \in SendResponses, jitter \in MailJitters : MailSendResponse(response, jitter)
    \/ \E jitter \in MailJitters : MailBackoffTimer(jitter)
    \/ \E fault \in BOOLEAN : PostUpdateStatus(fault)
    \/ \E fault \in BOOLEAN : PostRecordEvent(fault)
    \/ \E fault \in BOOLEAN : PostCatch(fault)
    \/ \E body \in PostBodies, fault \in BOOLEAN : SaveDraftRequest(body, fault)
    \/ \E id \in PatchIds, status \in SendStatuses \cup {"bogus"}, fault \in PatchFaults :
          PatchSendStatus(id, status, fault)
    \/ \E id \in PatchIds, status \in ResponseStatuses \cup {"unsent"}, fault \in PatchFaults :
          PatchResponseStatus(id, status, fault)
    \/ \E id \in PatchIds, body \in PatchBodies, fault \in PatchFaults : PatchEmail(id, body, fault)
    \/ Tick

Spec == Init /\ [][Next]_vars

-----------------------------------------------------------------------------
(* Claims about sending and the status of emails (specification Spec) *)

\* HTTP 200, API code 200, and an embedded status of failed, rejected or bounced
EmbeddedFailure(response) ==
    /\ response.ok /\ response.status = HttpOk /\ response.code = HttpOk
    /\ toLowerCase(response.msgStatus) \in {"failed", "rejected", "bounced"}

\* The email row the POST handler created, once it has one
PostRow == db.emails[post.emailId]

\* C6: when the provider answers the send call with HTTP 200 and API code 200
\* but an embedded message status of failed, rejected or bounced, sendEmail
\* reports success = false, and the POST handler that made the call leaves the
\* email 'failed' with no 'sent' analytics event.
C6_EmbeddedFailureReported ==
    /\ (mail.pc = "done" /\ EmbeddedFailure(mail.response)) => ~mail.result.success
    /\ (/\ post.pc = "done" /\ ~post.touched /\ ~post.dbFault
        /\ post.sendResult.status = "failed" /\ post.sendResult.messageId # "")
       => /\ PostRow.sendStatus = "failed"
          /\ EventsOf(db, post.emailId, "sent") = {}

\* C7: a POST /api/emails with all required fields whose send the provider
\* reports successful ends with the inserted row 'sent', sentAt non-null and
\* exactly one 'sent' analytics row for that email (no other request having
\* written to the email).
C7_SendSuccessRecorded ==
    (post.pc = "done" /\ post.sendResult.success /\ ~post.touched)
    => /\ PostRow.sendStatus = "sent"
       /\ PostRow.sentAt # NullTime
       /\ Cardinality(EventsOf(db, post.emailId, "sent")) = 1

\* The tables a second, later application of a status PATCH is compared on
SameTables(d, e) == d.emails = e.emails /\ d.analytics = e.analytics

LaterThan(d) == {[d EXCEPT !.now = t] : t \in d.now..MaxClock}

\* C8: applying the same send-status update, or the same response-status
\* update, to an email twice in a row leaves the email rows and the analytics
\* rows as they were after the first application.
C8_StatusUpdatesIdempotent ==
    \A id \in 1..Len(db.emails) :
        /\ \A status \in SendStatuses : \A once \in LaterThan(SendStatusPatched(db, id, status)) :
              SameTables(SendStatusPatched(once, id, status), once)
        /\ \A status \in ResponseStatuses :
              \A once \in LaterThan(ResponseStatusPatched(db, id, status)) :
                 SameTables(ResponseStatusPatched(once, id, status), once)

\* The events a repeated status PATCH adds
RepeatedEvents(id, status) ==
    IF status = "sent" THEN <<[emailId |-> id, eventType |-> "sent"]>>
    ELSE IF status \in {"good_response", "bad_response"}
    THEN <<[emailId |-> id, eventType |-> "replied"]>>
    ELSE <<>>

SameRowsButSentAt(d, e) ==
    /\ Len(d.emails) = Len(e.emails)
    /\ \A i \in 1..Len(d.emails) : [d.emails[i] EXCEPT !.sentAt = NullTime]
                                   = [e.emails[i] EXCEPT !.sentAt = NullTime]

\* C8 (amended): the second application leaves every email row as it was apart
\* from sent_at (and updated_at), which a repeated 'sent' sets to the time of
\* the second request; it leaves the analytics rows as they were for 'draft',
\* 'failed' and 'no_response', and appends one more 'sent' event for a
\* repeated 'sent', one more 'replied' event for a repeated good_response or
\* bad_response.
C8_RepeatedStatusUpdate ==
    \A id \in 1..Len(db.emails) :
        /\ \A status \in SendStatuses : \A once \in LaterThan(SendStatusPatched(db, id, status)) :
              LET twice == SendStatusPatched(once, id, status) IN
              /\ SameRowsButSentAt(twice, once)
              /\ twice.emails[id].sentAt = SentAtFor(status, once.now)
              /\ twice.analytics = once.analytics \o RepeatedEvents(id, status)
        /\ \A status \in ResponseStatuses :
              \A once \in LaterThan(ResponseStatusPatched(db, id, status)) :
                 LET twice == ResponseStatusPatched(once, id, status) IN
                 /\ twice.emails = once.emails
                 /\ twice.analytics = once.analytics \o RepeatedEvents(id, status)

\* C8 witness: a saved draft (no POST /api/emails was ever made) that the
\* send-status PATCH has set to 'sent' twice, at two different times
C8_Witness ==
    /\ post.pc = "idle"
    /\ Len(db.emails) = 1
    /\ db.emails[1].sendStatus = "sent"
    /\ db.emails[1].sentAt = MaxClock
    /\ Cardinality(EventsOf(db, 1, "sent")) = 2

\* The send status of email id changes in this step, to 'sent' or 'failed'
SendStatusSettles(id) ==
    /\ id \in 1..Len(db.emails)
    /\ db'.emails[id].sendStatus # db.emails[id].sendStatus
    /\ db'.emails[id].sendStatus \in {"sent", "failed"}

\* The step is one of the POST handler for email id, taken after its sendEmail
\* call has returned
AfterSendCall(id) ==
    /\ post.emailId = id
    /\ \/ post.pc = "sending" /\ mail.pc = "done"
       \/ post.pc \in {"record", "catch"}
    /\ post'.pc # post.pc

CreatedAsDraft ==
    \A id \in (Len(db.emails) + 1)..Len(db'.emails) : db'.emails[id].sendStatus = "draft"

\* C9: every email is created with sendStatus 'draft', and its sendStatus
\* changes to 'sent' or 'failed' only as the outcome of a send call made for
\* that email.
C9_SendStatusLifecycle ==
    [][/\ CreatedAsDraft
       /\ \A id \in 1..MaxEmails : SendStatusSettles(id) => AfterSendCall(id)]_vars

\* The step is a PATCH naming email id and the send status the email takes
PatchNames(id) ==
    \/ \E fault \in PatchFaults : PatchSendStatus(id, db'.emails[id].sendStatus, fault)
    \/ \E body \in PatchBodies, fault \in PatchFaults :
          /\ body.sendStatus = db'.emails[id].sendStatus
          /\ PatchEmail(id, body, fault)

\* C9 (amended): every email is created with sendStatus 'draft', and its
\* sendStatus changes to 'sent' or 'failed' only in POST /api/emails after the
\* send call made for that email has returned, or by a PATCH request (send-status
\* or /api/emails/{id}) that names that email and that status.
C9_SendStatusChangesByRequest ==
    [][/\ CreatedAsDraft
       /\ \A id \in 1..MaxEmails :
             SendStatusSettles(id) => (AfterSendCall(id) \/ PatchNames(id))]_vars

\* C9 witness: the email the POST handler created and marked 'failed' after
\* its send call is later set to 'sent' by a PATCH
C9_Witness ==
    /\ post.pc = "done" /\ post.touched
    /\ post.emailId = 1 /\ ~post.sendResult.success /\ ~post.dbFault
    /\ db.emails[1].sendStatus = "sent"

-----------------------------------------------------------------------------
(* GET /api/analytics/overview, and the handlers over the store on their own *)

CountWhere(rows, field, value) ==
    Cardinality({i \in 1..Len(rows) : rows[i][field] = value})

\* parseFloat((count / sentEmails * 100).toFixed(1)), in tenths of a percent
RatePerMille(count, sentEmails) ==
    IF sentEmails > 0 THEN (2000 * count + sentEmails) \div (2 * sentEmails) ELSE 0

\* analytics.overview of the answer, computed from the rows searchEmails
\* returned (timeline and topBusinesses, further groupings of the same rows,
\* are left out)
AnalyticsOverview(emails) ==
    LET sentEmails == CountWhere(emails, "sendStatus", "sent")
        goodResponse == CountWhere(emails, "responseStatus", "good_response")
        badResponse == CountWhere(emails, "responseStatus", "bad_response")
    IN  [totalEmails |-> Len(emails),
         sentEmails |-> sentEmails,
         draftEmails |-> CountWhere(emails, "sendStatus", "draft"),
         failedEmails |-> CountWhere(emails, "sendStatus", "failed"),
         uniqueBusinesses |-> Cardinality({emails[i].businessId : i \in 1..Len(emails)}),
         responseRate |-> RatePerMille(goodResponse + badResponse, sentEmails),
         goodResponseRate |-> RatePerMille(goodResponse, sentEmails)]

NoOverview == AnalyticsOverview(<<>>)

StatsInit == [pc |-> "idle", status |-> 0, overview |-> NoOverview]

StoreInit ==
    /\ db = DbInit
    /\ stats = StatsInit /\ patch = Idle
    /\ mail = Idle /\ post = Idle
    /\ retry = Idle /\ scraper = Idle /\ biz = Idle /\ bds = Idle /\ fn = Idle
    /\ net = Idle /\ claude = Idle /\ pool = Idle

StorePatchIds == 0..(MaxStoreEmails + 1)

\* GET without dateFrom and dateTo: searchEmails returns every row; fault:
\* the query throws
GetOverview(fault) ==
    /\ stats.pc = "idle"
    /\ stats' = IF fault
                THEN [pc |-> "done", status |-> 500, overview |-> NoOverview]
                ELSE [pc |-> "done", status |-> HttpOk,
                      overview |-> AnalyticsOverview(db.emails)]
    /\ UNCHANGED <<retry, scraper, mail, db, post, biz, bds, fn, net, claude, pool, patch>>

\* The requests on the store in any order, then one GET
StoreRequest ==
    \/ \E body \in PostBodies, fault \in BOOLEAN : SaveDraftRequest(body, fault)
    \/ \E id \in StorePatchIds, status \in SendStatuses \cup {"bogus"}, fault \in PatchFaults :
          PatchSendStatus(id, status, fault)
    \/ \E id \in StorePatchIds, status \in ResponseStatuses \cup {"unsent"},
          fault \in PatchFaults :
          PatchResponseStatus(id, status, fault)
    \/ \E id \in StorePatchIds, body \in PatchBodies, fault \in PatchFaults :
          PatchEmail(id, body, fault)
    \/ Tick

StoreNext ==
    \/ stats.pc = "idle" /\ StoreRequest
    \/ \E fault \in BOOLEAN : GetOverview(fault)

StoreSpec == StoreInit /\ [][StoreNext]_vars

-----------------------------------------------------------------------------
(* POST /api/businesses: handlers of several requests, suspended at their awaits *)

MaxHandlers == 2
MaxBusinesses == 3

Handlers == 1..MaxHandlers

BusinessBodies ==
    [name : {"Acme", ""}, contactEmail : {NoEmail, "bob@acme.com", "eve@corp.io"}]

NoBusinessResponse == [status |-> 0, businessId |-> 0, existing |-> FALSE]

\* found: what findBusinessByEmail returned to this handler, 0 for null or not asked
HandlerInit ==
    [pc |-> "idle", body |-> [name |-> "", contactEmail |-> NoEmail], found |-> 0,
     response |-> NoBusinessResponse]

BizInit ==
    /\ db = [DbInit EXCEPT !.businesses = <<>>]
    /\ biz = [h \in Handlers |-> HandlerInit]
    /\ retry = Idle
    /\ scraper = Idle
    /\ mail = Idle
    /\ post = Idle
    /\ bds = Idle /\ fn = Idle /\ net = Idle /\ claude = Idle /\ pool = Idle /\ stats = Idle /\ patch = Idle

BizFrame == UNCHANGED <<retry, scraper, mail, post, bds, fn, net, claude, pool, stats, patch>>

\* request.json() has resolved: the name check, then the findBusinessByEmail
\* query runs and the handler awaits its result
BizRequest(h, body) ==
    /\ biz[h].pc \in {"idle", "done"}
    /\ biz' = [biz EXCEPT ![h] =
          IF body.name = ""
          THEN [HandlerInit EXCEPT !.pc = "done", !.body = body, !.response.status = 400]
          ELSE [HandlerInit EXCEPT !.pc = "found", !.body = body,
                   !.found = IF body.contactEmail # NoEmail
                             THEN findBusinessByEmail(db, body.contactEmail)
                             ELSE 0]]
    /\ UNCHANGED db
    /\ BizFrame

\* The handler resumes with the result of the lookup: it answers with the
\* existing business, or the createBusiness insert runs and it awaits the id.
\* fault: the insert throws.
BizCreate(h, fault) ==
    /\ biz[h].pc = "found"
    /\ IF biz[h].found # 0
       THEN /\ biz' = [biz EXCEPT ![h].pc = "done",
                          ![h].response = [status |-> HttpOk, businessId |-> biz[h].found,
                                           existing |-> TRUE]]
            /\ UNCHANGED db
       ELSE IF fault
       THEN /\ biz' = [biz EXCEPT ![h].pc = "done", ![h].response.status = 500]
            /\ UNCHANGED db
       ELSE /\ Len(db.businesses) < MaxBusinesses
            /\ db' = createBusiness(db, biz[h].body)
            /\ biz' = [biz EXCEPT ![h].pc = "created",
                          ![h].response.businessId = Len(db'.businesses)]
    /\ BizFrame

\* The handler resumes with the new id and answers
BizRespond(h) ==
    /\ biz[h].pc = "created"
    /\ biz' = [biz EXCEPT ![h].pc = "done", ![h].response.status = HttpOk]
    /\ UNCHANGED db
    /\ BizFrame

BizNext ==
    \/ \E h \in Handlers, body \in BusinessBodies : BizRequest(h, body)
    \/ \E h \in Handlers, fault \in BOOLEAN : BizCreate(h, fault)
    \/ \E h \in Handlers : BizRespond(h)

BizSpec == BizInit /\ [][BizNext]_vars

\* C10: no two business rows share a non-null contactEmail, also when the
\* handlers of the requests interleave at their awaits; a request whose
\* contactEmail matches an existing row answers with that row's id and
\* inserts nothing.
C10_BusinessesDeduplicated ==
    /\ \A i, j \in 1..Len(db.businesses) :
          (i # j /\ db.businesses[i].contactEmail # NoEmail)
          => db.businesses[i].contactEmail # db.businesses[j].contactEmail
    /\ \A h \in Handlers :
          (biz[h].pc = "done" /\ biz[h].found # 0)
          => /\ biz[h].response.existing
             /\ biz[h].response.businessId = biz[h].found
             /\ db.businesses[biz[h].found].contactEmail = biz[h].body.contactEmail

-----------------------------------------------------------------------------
(* FallbackService: manual input *)

RECURSIVE Repeat(_, _)
Repeat(c, n) ==
    IF n = 0 THEN ""
    ELSE IF n % 2 = 0 THEN LET half == Repeat(c, n \div 2) IN half \o half
    ELSE c \o Repeat(c, n - 1)

\* s.trim(), for strings whose only white space is the blank
trim(s) ==
    IF IsBlank(s) THEN ""
    ELSE LET first == CHOOSE i \in 1..Len(s) :
                        CharAt(s, i) # " " /\ \A j \in 1..(i - 1) : CharAt(s, j) = " "
             last == CHOOSE i \in 1..Len(s) :
                        CharAt(s, i) # " " /\ \A j \in (i + 1)..Len(s) : CharAt(s, j) = " "
         IN  SubSeq(s, first, last)

NameCap == 100
DescriptionCap == 1000

\* ManualBusinessInput. An optional field that is absent is held as "" (as
\* <<>> for services): the code reads these fields through ||, && and ?:
\* only, which take undefined and the empty string alike.
ManualBusinessInput(businessName, description, website, email, phone, services, notes) ==
    [businessName |-> businessName, description |-> description,
     website |-> website, email |-> email, phone |-> phone,
     services |-> services, notes |-> notes]

NoManualInput == ManualBusinessInput("", "", "", "", "", <<>>, "")

convertManualInputToScrapedData(input) ==
    ScrapedData(IF Len(input.businessName) > 0 THEN input.businessName ELSE "Unknown Business",
                input.description,
                input.services,
                input.email,
                input.phone,
                "",
                "", "", "",
                IF Len(input.notes) > 0 THEN <<input.notes>> ELSE <<>>)

\* validateManualInput without its first test
validateManualInput_NoNameTest(input) ==
    LET errors ==
               (IF Len(input.businessName) > 0 /\ Len(trim(input.businessName)) > NameCap
                THEN <<"Business name should be less than 100 characters">> ELSE <<>>)
            \o (IF Len(input.description) > DescriptionCap
                THEN <<"Description should be less than 1000 characters">> ELSE <<>>)
            \o (IF Len(input.email) > 0 /\ ~isValidEmail(input.email)
                THEN <<"Please enter a valid email address">> ELSE <<>>)
            \o (IF Len(input.website) > 0 /\ ~isValidUrl_AnyScheme(input.website)
                THEN <<"Please enter a valid website URL">> ELSE <<>>)
    IN  [valid |-> Len(errors) = 0, errors |-> errors]

\* The errors pushed, in order; valid is errors.length === 0
validateManualInput(input) ==
    LET errors ==
               (IF Len(input.businessName) = 0 \/ Len(trim(input.businessName)) = 0
                THEN <<"Business name is required">> ELSE <<>>)
            \o (IF Len(input.businessName) > 0 /\ Len(trim(input.businessName)) > NameCap
                THEN <<"Business name should be less than 100 characters">> ELSE <<>>)
            \o (IF Len(input.description) > DescriptionCap
                THEN <<"Description should be less than 1000 characters">> ELSE <<>>)
            \o (IF Len(input.email) > 0 /\ ~isValidEmail(input.email)
                THEN <<"Please enter a valid email address">> ELSE <<>>)
            \o (IF Len(input.website) > 0 /\ ~isValidUrl_AnyScheme(input.website)
                THEN <<"Please enter a valid website URL">> ELSE <<>>)
    IN  [valid |-> Len(errors) = 0, errors |-> errors]

\* mergeScrapedWithManual without the fall-back to the scraped values
mergeScrapedWithManual_ManualOnly(scrapedData, manualInput) ==
    ScrapedData(manualInput.businessName,
                manualInput.description,
                manualInput.services,
                manualInput.email,
                manualInput.phone,
                scrapedData.address,
                scrapedData.linkedin, scrapedData.twitter, scrapedData.facebook,
                IF Len(manualInput.notes) > 0
                THEN Append(scrapedData.keyContent, manualInput.notes)
                ELSE scrapedData.keyContent)

mergeScrapedWithManual(scrapedData, manualInput) ==
    ScrapedData(IF Len(manualInput.businessName) > 0
                THEN manualInput.businessName ELSE scrapedData.businessName,
                IF Len(manualInput.description) > 0
                THEN manualInput.description ELSE scrapedData.description,
                IF Len(manualInput.services) > 0
                THEN manualInput.services ELSE scrapedData.services,
                IF Len(manualInput.email) > 0
                THEN manualInput.email ELSE scrapedData.email,
                IF Len(manualInput.phone) > 0
                THEN manualInput.phone ELSE scrapedData.phone,
                scrapedData.address,
                scrapedData.linkedin, scrapedData.twitter, scrapedData.facebook,
                IF Len(manualInput.notes) > 0
                THEN Append(scrapedData.keyContent, manualInput.notes)
                ELSE scrapedData.keyContent)

-----------------------------------------------------------------------------
(* BusinessDataService.assessDataQuality *)

\* assessDataQuality with the two description weights exchanged
assessDataQuality_SwappedDescription(data) ==
    LET named == /\ Len(data.businessName) > 0
                 /\ data.businessName # "Unknown Business"
                 /\ Len(trim(data.businessName)) > 0
        score ==
              (IF named THEN 30 ELSE 0)
            + (IF Len(data.description) > 20 THEN 10
               ELSE IF Len(data.description) > 0 THEN 25 ELSE 0)
            + (IF Len(data.email) > 0 THEN 20 ELSE 0)
            + (IF Len(data.phone) > 0 THEN 10 ELSE 0)
            + (IF Len(data.services) > 0 THEN 10 ELSE 0)
            + (IF Len(data.keyContent) > 0 THEN 5 ELSE 0)
    IN  [score |-> Min(score, 100), issues |-> <<>>]

\* {score, issues}, the score in hundredths. Sums of hundredths compare with
\* 0, 0.3 and 0.9 as the code's floating-point sums do.
assessDataQuality(data) ==
    LET named == /\ Len(data.businessName) > 0
                 /\ data.businessName # "Unknown Business"
                 /\ Len(trim(data.businessName)) > 0
        score ==
              (IF named THEN 30 ELSE 0)
            + (IF Len(data.description) > 20 THEN 25
               ELSE IF Len(data.description) > 0 THEN 10 ELSE 0)
            + (IF Len(data.email) > 0 THEN 20 ELSE 0)
            + (IF Len(data.phone) > 0 THEN 10 ELSE 0)
            + (IF Len(data.services) > 0 THEN 10 ELSE 0)
            + (IF Len(data.keyContent) > 0 THEN 5 ELSE 0)
        issues ==
               (IF named THEN <<>> ELSE <<"Business name is missing or generic">>)
            \o (IF Len(data.description) > 20 THEN <<>>
                ELSE IF Len(data.description) > 0
                THEN <<"Business description is very short">>
                ELSE <<"Business description is missing">>)
            \o (IF Len(data.email) > 0 THEN <<>> ELSE <<"Email address not found">>)
            \o (IF Len(data.phone) > 0 THEN <<>> ELSE <<"Phone number not found">>)
            \o (IF Len(data.services) > 0 THEN <<>>
                ELSE <<"Services/products information not found">>)
    IN  [score |-> Min(score, 100), issues |-> issues]

-----------------------------------------------------------------------------
(* The data functions, each called once on drawn arguments *)

ManualNames == {"", " ", "Acme Corp", Repeat("N", NameCap), Repeat("N", NameCap + 1)}
ManualDescriptions ==
    {"", "Override scraped description", Repeat("d", DescriptionCap),
     Repeat("d", DescriptionCap + 1)}
ManualEmails == {"", "a@b.com", "sales at acme"}
ManualPhones == {"", "555-0199"}
ManualServices == {<<>>, <<"seo">>}
ManualNotes == {"", "Met at the expo"}

ManualInputs ==
    { ManualBusinessInput(n, d, w, e, p, s, k) :
        n \in ManualNames, d \in ManualDescriptions, w \in Urls, e \in ManualEmails,
        p \in ManualPhones, s \in ManualServices, k \in ManualNotes }

\* Manual inputs for the merge: each field present or not
MergeInputs ==
    { ManualBusinessInput(n, d, "", e, p, s, k) :
        n \in {"", "Acme Corp"}, d \in {"", "Override scraped description"},
        e \in {"", "a@b.com"}, p \in ManualPhones, s \in ManualServices,
        k \in ManualNotes }

ScrapedInputs ==
    { ScrapedData(n, d, s, e, p, a, l, l, l, k) :
        n \in {"", " ", "Unknown Business", "Acme"},
        d \in {"", "Short text", LongDescription},
        s \in {<<>>, <<"web">>},
        e \in {"", "hi@acme.com"},
        p \in {"", "555-0100"},
        a \in {"", "1 Main Street, Springfield"},
        l \in {"", "https://social.example/acme"},
        k \in {<<>>, <<"Fast delivery">>} }

NoResult == [pc |-> "pending"]

FnCall(call, scraped, manual) ==
    [call |-> call, scraped |-> scraped, manual |-> manual, result |-> NoResult]

-----------------------------------------------------------------------------
(* EmailTemplateService.renderEmail *)

ContentToken == "{{CONTENT}}"
BusinessNameToken == "{{BUSINESS_NAME}}"

StartsAt(s, i, t) ==
    i + Len(t) - 1 <= Len(s) /\ SubSeq(s, i, i + Len(t) - 1) = t

\* GetSubstitution of String.prototype.replace for a pattern without capture
\* groups, from the k-th character of the replacement on: $$ is a dollar,
\* $& the match, $` and $' the text before and after it; any other $ stays
RECURSIVE GetSubstitution(_, _, _, _, _)
GetSubstitution(matched, str, position, replacement, k) ==
    IF k > Len(replacement) THEN ""
    ELSE IF CharAt(replacement, k) # "$" \/ k = Len(replacement)
    THEN CharAt(replacement, k) \o GetSubstitution(matched, str, position, replacement, k + 1)
    ELSE LET c == CharAt(replacement, k + 1)
             rest == GetSubstitution(matched, str, position, replacement, k + 2)
         IN  IF c = "$" THEN "$" \o rest
             ELSE IF c = "&" THEN matched \o rest
             ELSE IF c = "`" THEN SubSeq(str, 1, position - 1) \o rest
             ELSE IF c = "'" THEN SubSeq(str, position + Len(matched), Len(str)) \o rest
             ELSE "$" \o GetSubstitution(matched, str, position, replacement, k + 1)

\* str.replace(/token/g, replacement), from the i-th character of str on
RECURSIVE replace(_, _, _, _)
replace(str, token, replacement, i) ==
    IF i > Len(str) THEN ""
    ELSE IF StartsAt(str, i, token)
    THEN GetSubstitution(token, str, i, replacement, 1)
         \o replace(str, token, replacement, i + Len(token))
    ELSE CharAt(str, i) \o replace(str, token, replacement, i + 1)

\* The templates Map: id -> htmlTemplate
TemplateMap ==
    [id \in {"plain-text", "bare", "static"} |->
        CASE id = "plain-text" -> "<p>Hi {{BUSINESS_NAME}},</p>\n\n{{CONTENT}}"
          [] id = "bare" -> "{{CONTENT}}"
          [] id = "static" -> "<p>Hello</p>"]

\* renderEmail; an absent businessName is held as "". Of the value returned
\* the htmlContent; textContent is htmlToText(htmlContent).
renderEmail(templates, templateId, content, businessName) ==
    IF templateId \notin DOMAIN templates
    THEN [threw |-> TRUE, htmlContent |-> ""]
    ELSE LET withContent == replace(templates[templateId], ContentToken, content, 1)
         IN  [threw |-> FALSE,
              htmlContent |-> IF Len(businessName) > 0
                              THEN replace(withContent, BusinessNameToken, businessName, 1)
                              ELSE withContent]

TemplateIds == DOMAIN TemplateMap \cup {"missing"}
Contents ==
    {"", "<p>Hello</p>", "Save $$ today", "<b>$&</b>", "From $100",
     "Dear {{BUSINESS_NAME}} team"}
BusinessNames == {"", "Acme", "Bang $& Sons"}

RenderCall(templateId, content, businessName) ==
    [call |-> "renderEmail", templateId |-> templateId, content |-> content,
     businessName |-> businessName, result |-> NoResult]

FnInit ==
    /\ \/ \E m \in ManualInputs :
            fn = FnCall("validateManualInput", NoData, m)
       \/ \E m \in MergeInputs :
            fn = FnCall("convertManualInputToScrapedData", NoData, m)
       \/ \E s \in ScrapedInputs, m \in MergeInputs :
            fn = FnCall("mergeScrapedWithManual", s, m)
       \/ \E s \in ScrapedInputs :
            \/ fn = FnCall("BusinessDataService.assessDataQuality", s, NoManualInput)
            \/ fn = FnCall("WebScraperService.assessDataQuality", s, NoManualInput)
       \/ \E templateId \in TemplateIds, content \in Contents, businessName \in BusinessNames :
            fn = RenderCall(templateId, content, businessName)
    /\ retry = Idle /\ scraper = Idle /\ mail = Idle /\ db = Idle /\ post = Idle
    /\ biz = Idle /\ bds = Idle /\ net = Idle /\ claude = Idle /\ pool = Idle /\ stats = Idle /\ patch = Idle

FnFrame == UNCHANGED <<retry, scraper, mail, db, post, biz, bds, net, claude, pool, stats, patch>>

FnPending(call) == fn.call = call /\ fn.result = NoResult

FnValidate ==
    /\ FnPending("validateManualInput")
    /\ fn' = [fn EXCEPT !.result = validateManualInput(fn.manual)]
    /\ FnFrame

FnConvert ==
    /\ FnPending("convertManualInputToScrapedData")
    /\ fn' = [fn EXCEPT !.result = convertManualInputToScrapedData(fn.manual)]
    /\ FnFrame

FnMerge ==
    /\ FnPending("mergeScrapedWithManual")
    /\ fn' = [fn EXCEPT !.result = mergeScrapedWithManual(fn.scraped, fn.manual)]
    /\ FnFrame

FnAssessOrchestrator ==
    /\ FnPending("BusinessDataService.assessDataQuality")
    /\ fn' = [fn EXCEPT !.result = assessDataQuality(fn.scraped)]
    /\ FnFrame

FnAssessScraper ==
    /\ FnPending("WebScraperService.assessDataQuality")
    /\ fn' = [fn EXCEPT !.result = [score |-> ScraperQualityScore(fn.scraped)]]
    /\ FnFrame

FnRender ==
    /\ FnPending("renderEmail")
    /\ fn' = [fn EXCEPT !.result =
                renderEmail(TemplateMap, fn.templateId, fn.content, fn.businessName)]
    /\ FnFrame

FnNext ==
    \/ FnValidate
    \/ FnConvert
    \/ FnMerge
    \/ FnAssessOrchestrator
    \/ FnAssessScraper
    \/ FnRender

FnSpec == FnInit /\ [][FnNext]_vars

FnReturned(call) == fn.call = call /\ fn.result # NoResult
-----------------------------------------------------------------------------
(* Claims about the data functions *)

(* C14: the orchestrator's quality score and the scraper's quality score   *)
(* are the same function: BusinessDataService.assessDataQuality and        *)
(* WebScraperService.assessDataQuality return the same score for every     *)
(* ScrapedData (weights name 30%, description up to 25%, email 20%, phone  *)
(* 10%, services 10%, misc 5%).                                            *)
C14_ScorersAgree ==
    /\ FnReturned("BusinessDataService.assessDataQuality")
        => fn.result.score = ScraperQualityScore(fn.scraped)
    /\ FnReturned("WebScraperService.assessDataQuality")
        => fn.result.score = assessDataQuality(fn.scraped).score

\* The fields the claim lists, as the scraper's scorer tests them
ListedFields(data) ==
       (IF Len(data.businessName) > 0 /\ data.businessName # "Unknown Business"
        THEN {"name"} ELSE {})
  \cup (IF Len(data.description) > 20 THEN {"description"} ELSE {})
  \cup (IF Len(data.email) > 0 THEN {"email"} ELSE {})
  \cup (IF Len(data.phone) > 0 THEN {"phone"} ELSE {})
  \cup (IF Len(data.services) > 0 THEN {"services"} ELSE {})

\* The fields the orchestrator's scorer gives credit for
CountedFields(data) ==
       (IF /\ Len(data.businessName) > 0
           /\ data.businessName # "Unknown Business"
           /\ ~IsBlank(data.businessName)
        THEN {"name"} ELSE {})
  \cup (IF Len(data.description) > 20 THEN {"description"} ELSE {})
  \cup (IF Len(data.description) > 0 THEN {"some description"} ELSE {})
  \cup (IF Len(data.email) > 0 THEN {"email"} ELSE {})
  \cup (IF Len(data.phone) > 0 THEN {"phone"} ELSE {})
  \cup (IF Len(data.services) > 0 THEN {"services"} ELSE {})
  \cup (IF Len(data.keyContent) > 0 THEN {"keyContent"} ELSE {})

AllListedFields == {"name", "description", "email", "phone", "services"}

ScoreOfCall(data) ==
    IF fn.call = "WebScraperService.assessDataQuality"
    THEN ScraperQualityScore(data)
    ELSE assessDataQuality(data).score

AssessReturned ==
    \/ FnReturned("BusinessDataService.assessDataQuality")
    \/ FnReturned("WebScraperService.assessDataQuality")

(* C15, as stated: for both scorers, if ScrapedData B has every one of     *)
(* {name, description longer than 20 characters, email, phone, at least    *)
(* one service} that A has, then score(B) >= score(A); an empty            *)
(* ScrapedData scores 0 and a fully populated one at least 0.9.            *)
C15_ScoreMonotoneInListedFields ==
    AssessReturned =>
        /\ \A B \in ScrapedInputs :
            ListedFields(fn.scraped) \subseteq ListedFields(B)
                => ScoreOfCall(B) >= fn.result.score
        /\ fn.scraped = NoData => fn.result.score = 0
        /\ ListedFields(fn.scraped) = AllListedFields => fn.result.score >= 90

(* C15, amended: each scorer is monotone in the fields it gives credit     *)
(* for. The scraper's score does not decrease when B has every listed      *)
(* field that A has; the orchestrator's score does not decrease when B has *)
(* every one of {name that is not blank, description longer than 20        *)
(* characters, non-empty description, email, phone, at least one service,  *)
(* at least one key-content entry} that A has. Under both, the empty       *)
(* ScrapedData scores 0 and one with all listed fields at least 0.9.       *)
C15_ScoreMonotoneInCountedFields ==
    /\ FnReturned("WebScraperService.assessDataQuality") =>
        \A B \in ScrapedInputs :
            ListedFields(fn.scraped) \subseteq ListedFields(B)
                => ScraperQualityScore(B) >= fn.result.score
    /\ FnReturned("BusinessDataService.assessDataQuality") =>
        \A B \in ScrapedInputs :
            CountedFields(fn.scraped) \subseteq CountedFields(B)
                => assessDataQuality(B).score >= fn.result.score
    /\ AssessReturned =>
        /\ fn.scraped = NoData => fn.result.score = 0
        /\ (ListedFields(fn.scraped) = AllListedFields /\ ~IsBlank(fn.scraped.businessName))
            => fn.result.score >= 90

\* The orchestrator has scored data with a short description and key
\* content, which other data exceed in every counted field
C15_Witness ==
    /\ FnReturned("BusinessDataService.assessDataQuality")
    /\ fn.scraped.description = "Short text"
    /\ Len(fn.scraped.keyContent) > 0
    /\ fn.result.score = 15
    /\ \E B \in ScrapedInputs :
        /\ CountedFields(fn.scraped) \subseteq CountedFields(B)
        /\ CountedFields(B) # CountedFields(fn.scraped)

\* manual value when present and non-empty, the scraped value otherwise
Preferred(manualValue, scrapedValue) ==
    IF Len(manualValue) > 0 THEN manualValue ELSE scrapedValue

(* C16: mergeScrapedWithManual(scraped, manual): each of businessName,     *)
(* description, services, email and phone equals the manual value when     *)
(* that is present and non-empty and the scraped value otherwise; address  *)
(* and the social-media fields always equal the scraped values.            *)
C16_MergePrefersManual ==
    FnReturned("mergeScrapedWithManual") =>
        LET merged == fn.result
            scraped == fn.scraped
            manual == fn.manual
        IN  /\ \A f \in {"businessName", "description", "services", "email", "phone"} :
                merged[f] = Preferred(manual[f], scraped[f])
            /\ \A f \in {"address", "linkedin", "twitter", "facebook"} :
                merged[f] = scraped[f]

\* A merge in which some fields come from each side
C16_Witness ==
    /\ FnReturned("mergeScrapedWithManual")
    /\ fn.manual.businessName = "Acme Corp" /\ fn.scraped.businessName = "Acme"
    /\ fn.manual.email = "" /\ fn.scraped.email = "hi@acme.com"
    /\ fn.manual.services = <<>> /\ fn.scraped.services = <<"web">>
    /\ fn.scraped.linkedin # "" /\ fn.scraped.address # ""
    /\ fn.result.businessName = "Acme Corp"
    /\ fn.result.email = "hi@acme.com"

WellFormedFields(input) ==
    /\ Len(input.email) > 0 => isValidEmail(input.email)
    /\ Len(input.website) > 0 => ParsedUrl[input.website].ok

(* C17, as stated: validateManualInput returns valid=true with an empty    *)
(* error list for every manual input with a non-empty business name and    *)
(* well-formed email and URL fields, whatever the lengths of name and      *)
(* description, and at least one error when the business name is missing   *)
(* or empty.                                                               *)
C17_ValidWhenNamedAndWellFormed ==
    FnReturned("validateManualInput") =>
        /\ (Len(fn.manual.businessName) > 0 /\ WellFormedFields(fn.manual))
            => (fn.result.valid /\ fn.result.errors = <<>>)
        /\ Len(fn.manual.businessName) = 0 => Len(fn.result.errors) >= 1

(* C17, amended: validateManualInput returns valid=true with an empty      *)
(* error list exactly for the manual inputs whose business name, trimmed,  *)
(* has 1 to 100 characters, whose description has at most 1000 characters  *)
(* and whose email and URL fields are absent or well-formed; it returns at *)
(* least one error for every input whose business name is missing, empty   *)
(* or blank.                                                               *)
C17_ValidWithinCaps ==
    FnReturned("validateManualInput") =>
        LET name == trim(fn.manual.businessName) IN
        /\ fn.result.valid = (fn.result.errors = <<>>)
        /\ fn.result.valid <=>
            /\ Len(name) >= 1 /\ Len(name) <= NameCap
            /\ Len(fn.manual.description) <= DescriptionCap
            /\ WellFormedFields(fn.manual)
        /\ Len(name) = 0 => Len(fn.result.errors) >= 1

\* An input at both caps, with email and website given, is accepted
C17_Witness ==
    /\ FnReturned("validateManualInput")
    /\ Len(fn.manual.businessName) = NameCap
    /\ Len(fn.manual.description) = DescriptionCap
    /\ fn.manual.email = "a@b.com"
    /\ fn.manual.website = "ftp://acme.com"
    /\ fn.result.valid
-----------------------------------------------------------------------------
(* BusinessDataService.getBusinessData *)

MaxRequests == 2        \* getBusinessData calls made on one service instance

DefaultMaxRetries == 2  \* scrapeWebsite(url, maxRetries = 2)

NoQuality == [score |-> 0, issues |-> <<>>]

\* A BusinessDataResult; has is the set of its optional keys that are
\* defined. An error is held as its code (ErrorHandler fixes the message by
\* the code), a validation error as the list of messages joined.
BusinessDataResult(success, has, data, source, requiresManualInput, suggestions, error, quality) ==
    [success |-> success, has |-> has, data |-> data, source |-> source,
     requiresManualInput |-> requiresManualInput, suggestions |-> suggestions,
     error |-> error, quality |-> quality]

NoBusinessDataResult ==
    BusinessDataResult(FALSE, {}, NoData, "", FALSE, <<>>, <<>>, NoQuality)

\* A BusinessDataRequest; hasManual tells whether manualInput is given.
\* url is "" and preferManual FALSE when absent (both are read through ! and
\* || only).
BusinessDataRequest(url, hasManual, manualInput, preferManual) ==
    [url |-> url, hasManual |-> hasManual, manualInput |-> manualInput,
     preferManual |-> preferManual]

\* The branch getBusinessData takes, preferring the URL over preferManual
getBusinessDataBranch_UrlFirst(request) ==
    IF Len(request.url) = 0
    THEN "handleManualInput"
    ELSE IF request.hasManual
    THEN "handleCombinedInput"
    ELSE "handleScrapingWithFallback"

\* The branch getBusinessData takes (lines 41-53). The last return of the try
\* block (lines 56-65) is not reachable: a request without URL takes the
\* first branch.
getBusinessDataBranch(request) ==
    IF request.preferManual \/ Len(request.url) = 0
    THEN "handleManualInput"
    ELSE IF Len(request.url) > 0 /\ request.hasManual
    THEN "handleCombinedInput"
    ELSE "handleScrapingWithFallback"

handleManualInput(hasManual, manualInput) ==
    IF ~hasManual
    THEN BusinessDataResult(FALSE, {"suggestions"}, NoData, "manual", TRUE,
                            <<"Please enter the business information manually">>,
                            <<>>, NoQuality)
    ELSE LET validation == validateManualInput(manualInput) IN
         IF ~validation.valid
         THEN BusinessDataResult(FALSE, {"error", "suggestions"}, NoData, "manual", TRUE,
                                 <<"Please correct the validation errors and try again">>,
                                 validation.errors, NoQuality)
         ELSE BusinessDataResult(TRUE, {"data", "quality"},
                                 convertManualInputToScrapedData(manualInput),
                                 "manual", FALSE, <<>>, <<>>,
                                 [score |-> 100, issues |-> <<>>])

\* handleScrapingWithFallback once scrapeWebsite has returned (lines 123-146)
handleScrapingWithFallback(scrapingResult) ==
    IF scrapingResult.success /\ "data" \in scrapingResult.has
    THEN BusinessDataResult(TRUE,
                            {"data", "quality"}
                                \cup (scrapingResult.has \cap {"suggestions"}),
                            scrapingResult.data, "scraped",
                            "requiresManualInput" \in scrapingResult.has
                                /\ scrapingResult.requiresManualInput,
                            scrapingResult.suggestions, <<>>,
                            assessDataQuality(scrapingResult.data))
    ELSE BusinessDataResult(FALSE, {"error", "suggestions"}, NoData, "scraped", TRUE,
                            IF "suggestions" \in scrapingResult.has
                            THEN scrapingResult.suggestions
                            ELSE << "Please enter the business information manually",
                                    "Visit the website to gather the information needed" >>,
                            IF "error" \in scrapingResult.has
                            THEN scrapingResult.error.code
                            ELSE "Failed to scrape website",
                            NoQuality)

\* handleCombinedInput when the manual input fails validation (lines 154-162)
handleCombinedInputInvalid(validation) ==
    BusinessDataResult(FALSE, {"error"}, NoData, "manual", TRUE, <<>>,
                       validation.errors, NoQuality)

\* handleCombinedInput that gives up when the scrape fails
handleCombinedInput_ScrapeRequired(manualInput, scrapingResult) ==
    IF scrapingResult.success /\ "data" \in scrapingResult.has
    THEN LET mergedData == mergeScrapedWithManual(scrapingResult.data, manualInput) IN
         BusinessDataResult(TRUE, {"data", "quality", "suggestions"}, mergedData,
                            "combined", FALSE,
                            << "Business information combined from website and manual input",
                               "Manual input takes precedence where provided" >>,
                            <<>>, assessDataQuality(mergedData))
    ELSE handleScrapingWithFallback(scrapingResult)

\* handleCombinedInput once scrapeWebsite has returned (lines 167-201)
handleCombinedInput(manualInput, scrapingResult) ==
    IF scrapingResult.success /\ "data" \in scrapingResult.has
    THEN LET mergedData == mergeScrapedWithManual(scrapingResult.data, manualInput) IN
         BusinessDataResult(TRUE, {"data", "quality", "suggestions"}, mergedData,
                            "combined", FALSE,
                            << "Business information combined from website and manual input",
                               "Manual input takes precedence where provided" >>,
                            <<>>, assessDataQuality(mergedData))
    ELSE BusinessDataResult(TRUE, {"data", "quality", "suggestions"},
                            convertManualInputToScrapedData(manualInput),
                            "manual", FALSE,
                            << "Website scraping failed, using manual input",
                               IF "error" \in scrapingResult.has
                               THEN scrapingResult.error.code
                               ELSE "Could not extract information from website" >>,
                            <<>>, [score |-> 100, issues |-> <<>>])

RequestUrls == {"", "https://acme.com", "not-a-url"}

RequestInputs ==
    { ManualBusinessInput("Acme Corp", "Override scraped description", "",
                          "a@b.com", "", <<>>, ""),
      ManualBusinessInput("Acme Corp", "", "https://acme.com", "", "555-0199",
                          <<"seo">>, "Met at the expo"),
      ManualBusinessInput(" ", "Override scraped description", "", "a@b.com", "",
                          <<>>, ""),
      ManualBusinessInput("Acme Corp", "", "", "sales at acme", "", <<>>, ""),
      NoManualInput }

BusinessDataRequests ==
         { BusinessDataRequest(u, TRUE, m, p) :
             u \in RequestUrls, m \in RequestInputs, p \in BOOLEAN }
    \cup { BusinessDataRequest(u, FALSE, NoManualInput, p) :
             u \in RequestUrls, p \in BOOLEAN }

\* The validation of the manual inputs drawn, tabulated
RequestValidationOf == [m \in RequestInputs |-> validateManualInput(m)]

\* scrapes counts the scrapeWebsite calls the request in hand has made
BusinessDataInit ==
    [pc |-> "idle", calls |-> 0,
     request |-> BusinessDataRequest("", FALSE, NoManualInput, FALSE),
     scrapes |-> 0, result |-> NoBusinessDataResult]

BdsInit ==
    /\ bds = BusinessDataInit
    /\ scraper = ScraperInit
    /\ retry = Idle /\ mail = Idle /\ db = Idle /\ post = Idle /\ biz = Idle
    /\ fn = Idle /\ net = Idle /\ claude = Idle /\ pool = Idle /\ stats = Idle /\ patch = Idle

BdsFrame == UNCHANGED <<retry, mail, db, post, biz, fn, net, claude, pool, stats, patch>>

\* getBusinessData(request) up to its return or its await of scrapeWebsite
BdsRequest ==
    /\ bds.pc \in {"idle", "done"}
    /\ bds.calls < MaxRequests
    /\ \E request \in BusinessDataRequests :
        LET called == [bds EXCEPT !.calls = @ + 1, !.request = request,
                                  !.scrapes = 0, !.result = NoBusinessDataResult]
            branch == getBusinessDataBranch(request)
        IN  IF branch = "handleManualInput"
            THEN /\ bds' = [called EXCEPT !.pc = "done",
                                !.result = handleManualInput(request.hasManual,
                                                             request.manualInput)]
                 /\ UNCHANGED scraper
            ELSE IF branch = "handleCombinedInput"
                    /\ ~RequestValidationOf[request.manualInput].valid
            THEN /\ bds' = [called EXCEPT !.pc = "done",
                                !.result = handleCombinedInputInvalid(
                                               RequestValidationOf[request.manualInput])]
                 /\ UNCHANGED scraper
            ELSE /\ bds' = [called EXCEPT !.pc = branch, !.scrapes = 1]
                 /\ scraper' = scrapeWebsite(scraper, request.url, DefaultMaxRetries)
    /\ BdsFrame

\* scrapeWebsite has returned to the branch that awaits it
BdsScrapeReturned ==
    /\ bds.pc \in {"handleCombinedInput", "handleScrapingWithFallback"}
    /\ scraper.pc = "done"
    /\ bds' = [bds EXCEPT !.pc = "done",
                  !.result = IF bds.pc = "handleCombinedInput"
                             THEN handleCombinedInput(bds.request.manualInput, scraper.result)
                             ELSE handleScrapingWithFallback(scraper.result)]
    /\ UNCHANGED scraper
    /\ BdsFrame

\* cleanup(), between calls
BdsCleanup ==
    /\ bds.pc \in {"idle", "done"}
    /\ ScrapeCleanup

BdsNext ==
    \/ BdsRequest
    \/ ScrapeLaunch
    \/ ScrapeNewPage
    \/ ScrapeNavigate
    \/ ScrapeClosePage
    \/ ScrapeBackoffTimer
    \/ BdsScrapeReturned
    \/ BdsCleanup

BdsSpec == BdsInit /\ [][BdsNext]_vars
-----------------------------------------------------------------------------
(* Claims about getBusinessData *)

\* getBusinessData has returned for a request that took the given branch
BdsReturned(branch) ==
    /\ bds.pc = "done"
    /\ branch = (IF bds.request.preferManual \/ bds.request.url = "" THEN "manual"
                 ELSE IF bds.request.hasManual THEN "both"
                 ELSE "url")

(* C11: whenever preferManual is true or no URL is given, the scraper is   *)
(* never invoked and the result depends only on manualInput: success=false *)
(* with requiresManualInput=true when manualInput is absent or fails       *)
(* validation, otherwise success=true with source 'manual',                *)
(* requiresManualInput=false and quality score 1.0.                        *)
C11_ManualBranchNeverScrapes ==
    BdsReturned("manual") =>
        LET request == bds.request
            result == bds.result
        IN  /\ bds.scrapes = 0
            /\ scraper.pc \in {"idle", "done"}
            /\ IF ~request.hasManual \/ ~RequestValidationOf[request.manualInput].valid
               THEN ~result.success /\ result.requiresManualInput
               ELSE /\ result.success
                    /\ result.source = "manual"
                    /\ ~result.requiresManualInput
                    /\ "quality" \in result.has /\ result.quality.score = 100
                    /\ result.data = convertManualInputToScrapedData(request.manualInput)

\* preferManual with a URL and valid manual input: answered from the manual
\* input, without a scrape
C11_Witness ==
    /\ BdsReturned("manual")
    /\ bds.request.preferManual
    /\ bds.request.url = "https://acme.com"
    /\ bds.request.hasManual
    /\ bds.result.success
    /\ bds.result.data.businessName = "Acme Corp"
    /\ scraper.calls = 0

(* C12: with both a URL and valid manual input (preferManual not set), a   *)
(* successful scrape yields success=true, source 'combined' and data equal *)
(* to mergeScrapedWithManual(scraped, manual); a failed scrape still       *)
(* yields success=true, with source 'manual', data equal to the converted  *)
(* manual input and a suggestion explaining that scraping failed.          *)
C12_CombinedFallsBackToManual ==
    (BdsReturned("both") /\ RequestValidationOf[bds.request.manualInput].valid) =>
        LET request == bds.request
            result == bds.result
            scraped == scraper.result
        IN  /\ bds.scrapes = 1
            /\ result.success
            /\ "data" \in result.has
            /\ IF scraped.success
               THEN /\ result.source = "combined"
                    /\ result.data = mergeScrapedWithManual(scraped.data, request.manualInput)
               ELSE /\ result.source = "manual"
                    /\ result.data = convertManualInputToScrapedData(request.manualInput)
                    /\ "suggestions" \in result.has
                    /\ result.suggestions[1] = "Website scraping failed, using manual input"

\* A navigation that failed under a request with valid manual input
C12_Witness ==
    /\ BdsReturned("both")
    /\ bds.request.url = "https://acme.com"
    /\ Len(scraper.attemptLog) > 0
    /\ ~scraper.result.success
    /\ scraper.result.error.code = "TIMEOUT_ERROR"
    /\ bds.result.success
    /\ bds.result.source = "manual"
    /\ bds.result.data.businessName = "Acme Corp"

(* C13: URL only: whenever the result is successful and the quality score  *)
(* reported in the result is below 0.3, requiresManualInput is true;       *)
(* whenever the scrape fails the result has success=false,                 *)
(* requiresManualInput=true and a non-empty suggestion list.               *)
C13_LowQualityRequiresManualInput ==
    BdsReturned("url") =>
        LET result == bds.result IN
        /\ (result.success /\ result.quality.score < QualityThreshold)
            => result.requiresManualInput
        /\ ~scraper.result.success
            => /\ ~result.success
               /\ result.requiresManualInput
               /\ "suggestions" \in result.has /\ Len(result.suggestions) > 0
-----------------------------------------------------------------------------
(* ZohoEmailService on its own: sendEmail, validateCredentials and cleanup *)
(* called one after another on the singleton, with a record of the HTTP    *)
(* calls made                                                              *)

MaxMailCalls == 2       \* sendEmail and validateCredentials calls made
MaxMailClock == 2       \* the wall clock runs from 1 to this

NoStep == [ensure |-> FALSE, tokenCall |-> FALSE, sendCall |-> FALSE, refresh |-> "none"]

\* now: the wall clock. calls: calls made so far. op: the method last called.
\* tokenCalls, sendCalls and errors: the requests sent and the errors caught
\* during that call. bearer: the token of the last send request. did: what
\* the last step did.
NetInit ==
    [now |-> 1, calls |-> 0, op |-> "none", tokenCalls |-> 0, sendCalls |-> 0,
     errors |-> <<>>, bearer |-> "", did |-> NoStep]

\* An error caught by retryEmailSend: the HTTP status behind it (0 when there
\* is none) and its classification
CaughtError(status, message) ==
    [status |-> status, code |-> EmailErrorOf[message].code,
     retryable |-> EmailErrorOf[message].retryable]

\* The record after a step that took the service to state m: a request is
\* sent whenever the step ends awaiting an endpoint
NetAfter(n, m, ensured, refresh, caught) ==
    [n EXCEPT !.tokenCalls = @ + (IF m.pc \in {"token", "validating"} THEN 1 ELSE 0),
              !.sendCalls = @ + (IF m.pc = "send" THEN 1 ELSE 0),
              !.bearer = IF m.pc = "send" THEN m.accessToken ELSE @,
              !.errors = @ \o caught,
              !.did = [ensure |-> ensured,
                       tokenCall |-> m.pc \in {"token", "validating"},
                       sendCall |-> m.pc = "send",
                       refresh |-> refresh]]

\* validateCredentials up to its first await
validateCredentials(m, now) ==
    IF TokenIsFresh(m, now)
    THEN [m EXCEPT !.pc = "done", !.result = MailSuccess("sent", "validation")]
    ELSE [m EXCEPT !.pc = "validating"]

\* validateCredentials once the token endpoint has answered
validateCredentialsAfterToken(m, response, now) ==
    IF refreshAccessTokenError(response) # ""
    THEN [m EXCEPT !.pc = "done",
                   !.result = MailFailure(EmailErrorOf[refreshAccessTokenError(response)].code)]
    ELSE [m EXCEPT !.accessToken = response.access_token,
                   !.tokenExpiry = now + response.expires_in,
                   !.pc = "done", !.result = MailSuccess("sent", "validation")]

\* cleanup()
cleanup(m) == [m EXCEPT !.accessToken = "", !.tokenExpiry = NullTime]

MailOnlyInit ==
    /\ \E c \in BOOLEAN : mail = [MailInit EXCEPT !.configured = c]
    /\ net = NetInit
    /\ retry = Idle /\ scraper = Idle /\ db = Idle /\ post = Idle /\ biz = Idle
    /\ bds = Idle /\ fn = Idle /\ claude = Idle /\ pool = Idle /\ stats = Idle /\ patch = Idle

MailOnlyFrame == UNCHANGED <<retry, scraper, db, post, biz, bds, fn, claude, pool, stats, patch>>

BetweenCalls == mail.pc \in {"idle", "done"}

\* The errors the first step of an attempt catches: those of validateEmailData
ValidationCaught(m, body) ==
    IF m.configured /\ ValidationOf[body] # ""
    THEN <<CaughtError(0, ValidationOf[body])>> ELSE <<>>

\* sendEmail(emailData) is called
MsSend(body, jitter) ==
    /\ BetweenCalls
    /\ net.calls < MaxMailCalls
    /\ LET m == sendEmail(MailReturned(mail), body, net.now, jitter)
           started == [net EXCEPT !.calls = @ + 1, !.op = "sendEmail",
                                  !.tokenCalls = 0, !.sendCalls = 0, !.errors = <<>>]
       IN  /\ mail' = m
           /\ net' = NetAfter(started, m,
                              mail.configured /\ ValidationOf[body] = "",
                              "none", ValidationCaught(mail, body))
    /\ MailOnlyFrame

\* The token endpoint answers a refresh made for a send
MsTokenResponse(response, jitter) ==
    /\ mail.pc = "token"
    /\ LET m == MailAfterToken(mail, response, net.now, jitter)
           message == refreshAccessTokenError(response)
       IN  /\ mail' = m
           /\ net' = NetAfter(net, m, FALSE,
                              IF message = "" THEN "ok" ELSE "failed",
                              IF message = "" THEN <<>>
                              ELSE <<CaughtError(response.status, message)>>)
    /\ MailOnlyFrame

\* The send endpoint answers
MsSendResponse(response, jitter) ==
    /\ mail.pc = "send"
    /\ LET m == MailAfterSend(mail, response, jitter)
           message == performEmailSendError(response)
       IN  /\ mail' = m
           /\ net' = NetAfter(net, m, FALSE, "none",
                              IF message = "" THEN <<>>
                              ELSE <<CaughtError(response.status, message)>>)
    /\ MailOnlyFrame

\* The backoff timer fires: the next attempt
MsBackoffTimer(jitter) ==
    /\ mail.pc = "wait"
    /\ LET m == MailBeginAttempt([mail EXCEPT !.attempt = @ + 1, !.delay = 0],
                                 net.now, jitter)
       IN  /\ mail' = m
           /\ net' = NetAfter(net, m, ValidationOf[mail.body] = "", "none",
                              ValidationCaught(mail, mail.body))
    /\ MailOnlyFrame

\* validateCredentials() is called
MsValidateCredentials ==
    /\ BetweenCalls
    /\ net.calls < MaxMailCalls
    /\ LET m == validateCredentials(MailReturned(mail), net.now)
           started == [net EXCEPT !.calls = @ + 1, !.op = "validateCredentials",
                                  !.tokenCalls = 0, !.sendCalls = 0, !.errors = <<>>]
       IN  /\ mail' = m
           /\ net' = NetAfter(started, m, TRUE, "none", <<>>)
    /\ MailOnlyFrame

\* The token endpoint answers a refresh made for validateCredentials
MsValidateResponse(response) ==
    /\ mail.pc = "validating"
    /\ LET m == validateCredentialsAfterToken(mail, response, net.now)
       IN  /\ mail' = m
           /\ net' = NetAfter(net, m, FALSE,
                              IF refreshAccessTokenError(response) = "" THEN "ok" ELSE "failed",
                              <<>>)
    /\ MailOnlyFrame

\* cleanup() is called
MsCleanup ==
    /\ BetweenCalls
    /\ mail.accessToken # ""
    /\ mail' = cleanup(mail)
    /\ net' = [net EXCEPT !.did = NoStep]
    /\ MailOnlyFrame

\* Time passes
MsTick ==
    /\ net.now < MaxMailClock
    /\ net' = [net EXCEPT !.now = @ + 1, !.did = NoStep]
    /\ UNCHANGED mail
    /\ MailOnlyFrame

MailOnlyNext ==
    \/ \E body \in MailBodies, jitter \in MailJitters : MsSend(body, jitter)
    \/ \E response \in MailTokenResponses, jitter \in MailJitters : MsTokenResponse(response, jitter)
    \/ \E response \in MailSendResponses, jitter \in MailJitters : MsSendResponse(response, jitter)
    \/ \E jitter \in MailJitters : MsBackoffTimer(jitter)
    \/ MsValidateCredentials
    \/ \E response \in MailTokenResponses : MsValidateResponse(response)
    \/ MsCleanup
    \/ MsTick

MailOnlySpec == MailOnlyInit /\ [][MailOnlyNext]_vars

(* C23: renderEmail(templateId, content, businessName) returns exactly the *)
(* template's HTML with every {{CONTENT}} occurrence replaced by content   *)
(* character for character and every {{BUSINESS_NAME}} occurrence of the   *)
(* template replaced by businessName, for every content string; a template *)
(* without these tokens is returned unchanged.                             *)

\* The template from its i-th character on, with its tokens replaced
RECURSIVE LiterallySubstituted(_, _, _, _)
LiterallySubstituted(template, content, businessName, i) ==
    IF i > Len(template) THEN ""
    ELSE IF StartsAt(template, i, ContentToken)
    THEN content \o LiterallySubstituted(template, content, businessName, i + Len(ContentToken))
    ELSE IF StartsAt(template, i, BusinessNameToken)
    THEN businessName
         \o LiterallySubstituted(template, content, businessName, i + Len(BusinessNameToken))
    ELSE CharAt(template, i) \o LiterallySubstituted(template, content, businessName, i + 1)

RenderReturned ==
    /\ FnReturned("renderEmail")
    /\ fn.templateId \in DOMAIN TemplateMap
    /\ Len(fn.businessName) > 0

C23_RenderIsLiteralSubstitution ==
    RenderReturned =>
        /\ ~fn.result.threw
        /\ fn.result.htmlContent =
              LiterallySubstituted(TemplateMap[fn.templateId], fn.content, fn.businessName, 1)


(* C24: updating an email's response status leaves its sendStatus, sentAt, *)
(* subject and htmlContent unchanged, updating its send status leaves its  *)
(* responseStatus unchanged, and neither update changes any other email or *)
(* any business row.                                                       *)

\* From d to e no row but the emails row id has changed
OnlyEmailTouched(d, e, id) ==
    /\ e.businesses = d.businesses
    /\ Len(e.emails) = Len(d.emails)
    /\ \A i \in 1..Len(d.emails) : i # id => e.emails[i] = d.emails[i]

ResponseUpdateFrame(d, e, id) ==
    /\ OnlyEmailTouched(d, e, id)
    /\ \A i \in 1..Len(d.emails) :
          /\ e.emails[i].sendStatus = d.emails[i].sendStatus
          /\ e.emails[i].sentAt = d.emails[i].sentAt
          /\ e.emails[i].subject = d.emails[i].subject
          /\ e.emails[i].htmlContent = d.emails[i].htmlContent
          /\ e.emails[i].businessId = d.emails[i].businessId

SendUpdateFrame(d, e, id) ==
    /\ OnlyEmailTouched(d, e, id)
    /\ \A i \in 1..Len(d.emails) :
          /\ e.emails[i].responseStatus = d.emails[i].responseStatus
          /\ e.emails[i].subject = d.emails[i].subject
          /\ e.emails[i].htmlContent = d.emails[i].htmlContent
          /\ e.emails[i].businessId = d.emails[i].businessId

C24_StatusUpdatesIndependent ==
    \A id \in 1..Len(db.emails) :
        /\ \A status \in ResponseStatuses :
              /\ ResponseUpdateFrame(db, updateResponseStatus(db, id, status), id)
              /\ ResponseUpdateFrame(db, ResponseStatusPatched(db, id, status), id)
        /\ \A status \in SendStatuses :
              /\ SendUpdateFrame(db, updateEmailStatus(db, id, status, SentAtFor(status, db.now)), id)
              /\ SendUpdateFrame(db, SendStatusPatched(db, id, status), id)

\* Of two emails the second has been marked sent and then answered, the
\* first is as it was saved
C24_Witness ==
    /\ Len(db.emails) = 2
    /\ db.emails[1].sendStatus = "draft" /\ db.emails[1].responseStatus = "no_response"
    /\ db.emails[2].sendStatus = "sent" /\ db.emails[2].sentAt # NullTime
    /\ db.emails[2].responseStatus = "good_response"
    /\ EventsOf(db, 2, "replied") # {}


(* C25: retryWithBackoff always terminates; it invokes the operation at    *)
(* most maxRetries+1 times, waits a backoff delay only between attempts    *)
(* and never after the last one, each delay being at most 30 seconds, and  *)
(* when every attempt has failed it throws the error of the last attempt.  *)

RetryBounded ==
    LET loop == retry.loop
        a == retry.args
    IN  /\ loop.calls <= a.maxRetries + 1
        /\ loop.pc = "wait" => loop.calls <= a.maxRetries
        /\ loop.pc = "wait" => loop.delay <= DelayCap
        /\ \A i \in 1..Len(loop.delays) : loop.delays[i] <= DelayCap
        /\ loop.pc = "done" => Len(loop.delays) = loop.calls - 1
        /\ loop.pc = "call" => Len(loop.delays) = loop.calls
        /\ (loop.pc = "done" /\ loop.outcome = "thrown") =>
              /\ \A k \in 1..loop.calls : a.operation[k] # "ok"
              /\ loop.value = a.operation[loop.calls]

C25_RetryTerminates ==
    /\ <>(retry.loop.pc = "done")
    /\ []RetryBounded

\* Three failed attempts with two waits between them, the second at the cap
C25_Witness ==
    /\ retry.loop.pc = "done" /\ retry.loop.outcome = "thrown"
    /\ retry.args.maxRetries = 2 /\ retry.loop.calls = 3
    /\ Len(retry.loop.delays) = 2 /\ retry.loop.delays[2] = DelayCap
    /\ retry.loop.value = retry.args.operation[3]

-----------------------------------------------------------------------------
(* Claims about the mail sender *)

\* A sendEmail call is in hand, or has returned and no other call was made since
InSendCall == net.op = "sendEmail"

SendReturned == InSendCall /\ mail.pc = "done"

(* C18: when the service is configured, a send request whose recipient,    *)
(* subject, body, sender address or sender name fails local validation     *)
(* causes no call to the token endpoint and no call to the send endpoint   *)
(* on any attempt, and sendEmail returns success=false (code               *)
(* EMAIL_INVALID_RECIPIENT for an ill-formed or empty recipient address).  *)
C18_LocalValidationFirst ==
    (InSendCall /\ mail.configured /\ ValidationOf[mail.body] # "") =>
        /\ net.tokenCalls = 0
        /\ net.sendCalls = 0
        /\ mail.pc \in {"wait", "done"}
        /\ mail.pc = "done" =>
            /\ ~mail.result.success
            /\ (mail.body.recipientEmail = "" \/ ~isValidEmail(mail.body.recipientEmail))
                => mail.result.code = "EMAIL_INVALID_RECIPIENT"

ServerErrors == {500, 502, 503, 504}

(* C19: sendEmail makes at most 3 send attempts (maxRetries=2); it stops   *)
(* after the first attempt whose error is classified non-retryable (HTTP   *)
(* 401 from the token or send endpoint gives EMAIL_AUTH_ERROR after a      *)
(* single attempt), and re-attempts only after errors classified retryable *)
(* (HTTP 429 and 5xx, ending in EMAIL_SEND_ERROR when all attempts fail).  *)
C19_RetryDiscipline ==
    (InSendCall /\ mail.configured) =>
        LET errors == net.errors
            last == Len(errors)
        IN  /\ mail.attempt + 1 <= MailMaxRetries + 1
            /\ last <= MailMaxRetries + 1
            /\ \A i \in 1..last :
                /\ ~errors[i].retryable =>
                    (i = last /\ mail.pc = "done" /\ ~mail.result.success)
                /\ i < last => errors[i].retryable
                /\ errors[i].status = 401 =>
                    (~errors[i].retryable /\ errors[i].code = "EMAIL_AUTH_ERROR"
                     /\ mail.result.code = "EMAIL_AUTH_ERROR")
                /\ errors[i].status \in ServerErrors \cup {429} =>
                    (errors[i].retryable /\ errors[i].code = "EMAIL_SEND_ERROR")
            /\ (mail.pc = "done" /\ last = MailMaxRetries + 1
                /\ errors[last].status \in ServerErrors \cup {429})
                => (~mail.result.success /\ mail.result.code = "EMAIL_SEND_ERROR")

\* A token is cached and its expiry is in the future
CachedUnexpired == mail.accessToken # "" /\ mail.tokenExpiry > net.now

(* C20: over any sequence of sends, credential validations and cleanups,   *)
(* the token endpoint is called exactly when no token is cached or the     *)
(* cached token's expiry is not in the future; a send made while an        *)
(* unexpired token is cached makes no token call and uses that token; a    *)
(* failed refresh leaves the cached token and expiry unchanged.            *)
C20_TokenCache ==
    [][ LET did == net'.did IN
        /\ did.tokenCall => (did.ensure /\ ~CachedUnexpired)
        /\ (did.ensure /\ ~CachedUnexpired) => did.tokenCall
        /\ (did.ensure /\ CachedUnexpired) =>
            /\ ~did.tokenCall
            /\ mail'.accessToken = mail.accessToken
            /\ mail'.tokenExpiry = mail.tokenExpiry
            /\ mail'.pc = "send" => (did.sendCall /\ net'.bearer = mail.accessToken)
        /\ did.refresh = "failed" =>
            /\ mail'.accessToken = mail.accessToken
            /\ mail'.tokenExpiry = mail.tokenExpiry
      ]_vars

\* A second call, a send, goes out under the token the first call cached
C20_Witness ==
    /\ net.calls = 2
    /\ net.op = "sendEmail"
    /\ mail.pc = "send"
    /\ net.tokenCalls = 0
    /\ net.sendCalls = 1
    /\ net.bearer = "tok-1"
    /\ mail.tokenExpiry > net.now
-----------------------------------------------------------------------------
(* ErrorHandler.handleAIServiceError *)

\* kind names the branch taken; code and retryable are the fields returned
AIError(kind, code, retryable) == [kind |-> kind, code |-> code, retryable |-> retryable]

\* handleAIServiceError with the token-limit branch made retryable
handleAIServiceError_TokenLimitRetryable(errorMessage) ==
    LET message == toLowerCase(errorMessage) IN
    IF includes(message, "rate limit") \/ includes(message, "429")
       \/ includes(message, "rate_limit_error")
    THEN AIError("rate_limit", "AI_RATE_LIMIT", TRUE)
    ELSE IF includes(message, "api key") \/ includes(message, "authentication")
            \/ includes(message, "401") \/ includes(message, "invalid_request_error")
    THEN AIError("authentication", "AI_API_ERROR", FALSE)
    ELSE IF includes(message, "overloaded") \/ includes(message, "503")
            \/ includes(message, "service_unavailable")
    THEN AIError("overloaded", "AI_API_ERROR", TRUE)
    ELSE IF includes(message, "timeout") \/ includes(message, "timed out")
    THEN AIError("timeout", "AI_API_ERROR", TRUE)
    ELSE IF includes(message, "invalid response") \/ includes(message, "malformed")
            \/ includes(message, "empty response")
    THEN AIError("invalid_response", "AI_INVALID_RESPONSE", TRUE)
    ELSE IF includes(message, "content_policy") \/ includes(message, "safety")
    THEN AIError("content_policy", "AI_INVALID_RESPONSE", FALSE)
    ELSE IF includes(message, "token") \/ includes(message, "max_tokens")
            \/ includes(message, "context_length")
    THEN AIError("token_limit", "AI_INVALID_RESPONSE", TRUE)
    ELSE IF includes(message, "network") \/ includes(message, "connection")
    THEN AIError("network", "AI_API_ERROR", TRUE)
    ELSE AIError("default", "AI_API_ERROR", TRUE)

handleAIServiceError(errorMessage) ==
    LET message == toLowerCase(errorMessage) IN
    IF includes(message, "rate limit") \/ includes(message, "429")
       \/ includes(message, "rate_limit_error")
    THEN AIError("rate_limit", "AI_RATE_LIMIT", TRUE)
    ELSE IF includes(message, "api key") \/ includes(message, "authentication")
            \/ includes(message, "401") \/ includes(message, "invalid_request_error")
    THEN AIError("authentication", "AI_API_ERROR", FALSE)
    ELSE IF includes(message, "overloaded") \/ includes(message, "503")
            \/ includes(message, "service_unavailable")
    THEN AIError("overloaded", "AI_API_ERROR", TRUE)
    ELSE IF includes(message, "timeout") \/ includes(message, "timed out")
    THEN AIError("timeout", "AI_API_ERROR", TRUE)
    ELSE IF includes(message, "invalid response") \/ includes(message, "malformed")
            \/ includes(message, "empty response")
    THEN AIError("invalid_response", "AI_INVALID_RESPONSE", TRUE)
    ELSE IF includes(message, "content_policy") \/ includes(message, "safety")
    THEN AIError("content_policy", "AI_INVALID_RESPONSE", FALSE)
    ELSE IF includes(message, "token") \/ includes(message, "max_tokens")
            \/ includes(message, "context_length")
    THEN AIError("token_limit", "AI_INVALID_RESPONSE", FALSE)
    ELSE IF includes(message, "network") \/ includes(message, "connection")
    THEN AIError("network", "AI_API_ERROR", TRUE)
    ELSE AIError("default", "AI_API_ERROR", TRUE)

-----------------------------------------------------------------------------
(* ClaudeService *)

MaxClaudeOps == 3       \* method calls made on one ClaudeService instance

ClaudeMaxRetries == 2
ClaudeBaseDelay == 1000

\* A nullable field: <<>> is null, <<v>> holds v
Null == <<>>

\* What one messages.create call settles with: a response (its content
\* array given by the type and text of its first block, "none" for an empty
\* array) or a rejection with the message of the error
ApiResponse(type, text) == [threw |-> FALSE, type |-> type, text |-> text, message |-> ""]
ApiRejection(message) == [threw |-> TRUE, type |-> "none", text |-> "", message |-> message]

ApiOutcomes ==
    { ApiResponse("text", " Hello Acme "),
      ApiResponse("none", ""),
      ApiResponse("tool_use", ""),
      ApiRejection("429 rate_limit_error: Too many requests"),
      ApiRejection("invalid_request_error: Invalid API key"),
      ApiRejection("service_unavailable: Claude API is overloaded"),
      ApiRejection("Request timed out."),
      ApiRejection("content_policy: Content flagged by safety filters"),
      ApiRejection("max_tokens exceeded"),
      ApiRejection("Connection error."),
      ApiRejection("500 api_error: Internal server error") }

\* this.client!.messages on a client that cleanup() has set to null
NullClientMessage == "Cannot read properties of null (reading 'messages')"

\* performEmailGeneration / performEmailRefinement after the await: the text
\* returned, or the message of the error thrown
performEmailGeneration(outcome) ==
    IF outcome.threw THEN [threw |-> TRUE, value |-> outcome.message]
    ELSE IF outcome.type = "none"
    THEN [threw |-> TRUE, value |-> "Claude API returned empty response"]
    ELSE IF outcome.type # "text"
    THEN [threw |-> TRUE, value |-> "Claude API returned non-text response"]
    ELSE [threw |-> FALSE, value |-> trim(outcome.text)]

ClaudeMessages ==
    { performEmailGeneration(o).value : o \in ApiOutcomes } \cup { NullClientMessage }

AIErrorOf == [m \in ClaudeMessages |-> handleAIServiceError(m)]

NotConfiguredError == AIError("not_configured", "AI_API_ERROR", FALSE)

NoClaudeResult == [success |-> FALSE, data |-> "", error |-> AIError("", "", FALSE)]
ClaudeSuccess(data) == [success |-> TRUE, data |-> data, error |-> AIError("", "", FALSE)]
ClaudeFailure(error) == [success |-> FALSE, data |-> "", error |-> error]

\* new ClaudeService(apiKey): this.apiKey = apiKey || null
ClaudeService(apiKey) ==
    [apiKey |-> IF Len(apiKey) > 0 THEN <<apiKey>> ELSE Null,
     client |-> IF Len(apiKey) > 0 THEN <<apiKey>> ELSE Null,
     supplied |-> Len(apiKey) > 0,
     ops |-> 0, calls |-> 0, pc |-> "idle", op |-> "none", loop |-> RetryLoopInit,
     requests |-> 0, trace |-> <<>>, result |-> NoClaudeResult]

ApiKeys == {"", "test-key"}

\* isConfigured that looks at the key alone
isConfigured_KeyOnly(c) == c.apiKey # Null

isConfigured(c) == c.client # Null /\ c.apiKey # Null

\* setApiKey: the assignment, then initializeClient, which throws on an
\* empty key before it replaces the client
setApiKey(c, apiKey) ==
    [c EXCEPT !.apiKey = <<apiKey>>,
              !.client = IF Len(apiKey) > 0 THEN <<apiKey>> ELSE @,
              !.supplied = @ \/ Len(apiKey) > 0]

ClaudeCleanup(c) == [c EXCEPT !.client = Null, !.apiKey = Null, !.supplied = FALSE]

\* The head of generateEmail, refineEmail and generateSubjectLine
ClaudeBegin(c, op) ==
    IF ~isConfigured(c)
    THEN [c EXCEPT !.pc = "done", !.op = op, !.calls = @ + 1, !.requests = 0,
                   !.trace = <<>>, !.loop = RetryLoopInit,
                   !.result = ClaudeFailure(NotConfiguredError)]
    ELSE [c EXCEPT !.pc = "call", !.op = op, !.calls = @ + 1, !.requests = 0,
                   !.trace = <<>>, !.loop = RetryLoopInit,
                   !.result = NoClaudeResult]

\* generateEmail / refineEmail once retryWithBackoff has settled
ClaudeSettle(c) ==
    IF c.loop.pc # "done" THEN [c EXCEPT !.pc = c.loop.pc]
    ELSE IF c.loop.outcome = "returned"
    THEN [c EXCEPT !.pc = "done", !.result = ClaudeSuccess(c.loop.value)]
    ELSE [c EXCEPT !.pc = "done",
                   !.result = ClaudeFailure(AIErrorOf[c.loop.value])]

\* One invocation of the operation by retryWithBackoff with the shouldRetry
\* predicate of the service; requested tells whether messages.create ran
ClaudeAttempt(c, requested, settled, jitter) ==
    LET retryOk == settled.threw => AIErrorOf[settled.value].retryable
        loop == RetryAfterCall(c.loop, settled.threw, settled.value, retryOk,
                               ClaudeMaxRetries, ClaudeBaseDelay, jitter)
    IN  ClaudeSettle([c EXCEPT !.loop = loop,
                               !.requests = @ + (IF requested THEN 1 ELSE 0),
                               !.trace = IF settled.threw
                                         THEN Append(@, AIErrorOf[settled.value].kind)
                                         ELSE @])

\* generateSubjectLine after its single messages.create call
ClaudeSubjectLine(c, requested, settled) ==
    [c EXCEPT !.pc = "done",
              !.requests = @ + (IF requested THEN 1 ELSE 0),
              !.trace = IF settled.threw
                        THEN Append(@, AIErrorOf[settled.value].kind) ELSE @,
              !.result = IF settled.threw
                         THEN ClaudeFailure(AIErrorOf[settled.value])
                         ELSE ClaudeSuccess(settled.value)]

ClaudeInit ==
    /\ \E apiKey \in ApiKeys : claude = ClaudeService(apiKey)
    /\ retry = Idle /\ scraper = Idle /\ mail = Idle /\ db = Idle /\ post = Idle
    /\ biz = Idle /\ bds = Idle /\ fn = Idle /\ net = Idle /\ pool = Idle /\ stats = Idle /\ patch = Idle

ClaudeFrame == UNCHANGED <<retry, scraper, mail, db, post, biz, bds, fn, net, pool, stats, patch>>

ClaudeBetweenCalls == claude.pc \in {"idle", "done"}

ClSetApiKey(apiKey) ==
    /\ claude.ops + claude.calls < MaxClaudeOps
    /\ claude' = [setApiKey(claude, apiKey) EXCEPT !.ops = @ + 1]
    /\ ClaudeFrame

ClCleanup ==
    /\ claude.ops + claude.calls < MaxClaudeOps
    /\ claude' = [ClaudeCleanup(claude) EXCEPT !.ops = @ + 1]
    /\ ClaudeFrame

ClGenerateEmail ==
    /\ ClaudeBetweenCalls /\ claude.ops + claude.calls < MaxClaudeOps
    /\ claude' = ClaudeBegin(claude, "generateEmail")
    /\ ClaudeFrame

ClRefineEmail ==
    /\ ClaudeBetweenCalls /\ claude.ops + claude.calls < MaxClaudeOps
    /\ claude' = ClaudeBegin(claude, "refineEmail")
    /\ ClaudeFrame

ClGenerateSubjectLine ==
    /\ ClaudeBetweenCalls /\ claude.ops + claude.calls < MaxClaudeOps
    /\ claude' = ClaudeBegin(claude, "generateSubjectLine")
    /\ ClaudeFrame

\* messages.create settles, or this.client is null and the operation throws
\* before it makes the request
ClResponse(outcome, jitter) ==
    /\ claude.pc = "call"
    /\ LET requested == claude.client # Null
           settled == IF requested THEN performEmailGeneration(outcome)
                      ELSE [threw |-> TRUE, value |-> NullClientMessage]
       IN  claude' = IF claude.op = "generateSubjectLine"
                     THEN ClaudeSubjectLine(claude, requested, settled)
                     ELSE ClaudeAttempt(claude, requested, settled, jitter)
    /\ ClaudeFrame

ClBackoffTimer ==
    /\ claude.pc = "wait"
    /\ claude' = ClaudeSettle([claude EXCEPT !.loop = RetryAfterWait(claude.loop)])
    /\ ClaudeFrame

ClaudeNext ==
    \/ \E apiKey \in ApiKeys : ClSetApiKey(apiKey)
    \/ ClCleanup
    \/ ClGenerateEmail
    \/ ClRefineEmail
    \/ ClGenerateSubjectLine
    \/ \E outcome \in ApiOutcomes, jitter \in Jitters : ClResponse(outcome, jitter)
    \/ ClBackoffTimer

ClaudeSpec == ClaudeInit /\ [][ClaudeNext]_vars


(* C21: generateEmail and refineEmail call the LLM endpoint at most 3      *)
(* times per request; after an error classified as authentication,         *)
(* content-policy or token-limit no further call is made, a further call   *)
(* is made only after an error classified retryable, and the call ends     *)
(* with a result object: success, or the classification of the last error. *)

RetryableKinds ==
    {"rate_limit", "overloaded", "timeout", "invalid_response", "network", "default"}
FinalKinds == {"authentication", "content_policy", "token_limit"}
AICodes == {"AI_RATE_LIMIT", "AI_API_ERROR", "AI_INVALID_RESPONSE"}

InRetryingCall == claude.op \in {"generateEmail", "refineEmail"} /\ claude.pc # "idle"

C22_ConfigurationState ==
    /\ [](isConfigured(claude) <=> claude.supplied)
    /\ [][ (claude'.calls = claude.calls + 1 /\ ~isConfigured(claude)) =>
              /\ claude'.pc = "done"
              /\ ~claude'.result.success
              /\ claude'.result.error.code = "AI_API_ERROR"
              /\ ~claude'.result.error.retryable
              /\ claude'.requests = 0
         ]_vars

\* A subject line asked for after two earlier method calls left the
\* service without a key
C22_Witness ==
    /\ claude.op = "generateSubjectLine" /\ claude.pc = "done"
    /\ claude.ops = 2 /\ ~claude.supplied
    /\ claude.result = ClaudeFailure(NotConfiguredError)
    /\ claude.requests = 0


(* C30: the responseRate and goodResponseRate that GET                     *)
(* /api/analytics/overview reports lie between 0 and 100 in every          *)
(* reachable database state, and sentEmails + draftEmails + failedEmails   *)
(* equals totalEmails.                                                     *)
C30_OverviewRatesBounded ==
    (stats.pc = "done" /\ stats.status = HttpOk) =>
        LET o == stats.overview IN
        /\ o.responseRate \in 0..1000
        /\ o.goodResponseRate \in 0..1000
        /\ o.sentEmails + o.draftEmails + o.failedEmails = o.totalEmails


\* ---------------------------------------------------------------------
\* WebScraperService: one instance, overlapping scrapeWebsite calls.
\* The instance keeps one field, this.browser; every call of
\* attemptScraping reads it, and launches a browser when it is null.
\* ---------------------------------------------------------------------

MaxPoolCalls == 2
MaxCleanups == 2
PoolMaxRetries == 1

NoBrowser == 0
PoolCallIds == 1..MaxPoolCalls
PoolUrls == {"https://acme.com", "not-a-url"}
PoolJitters == {0}
PoolPages == { ScrapedData("Acme", "", <<>>, "", "", "", "", "", "", <<>>) }
PoolNavigationErrors == {"page.goto: Timeout 30000ms exceeded."}
PoolClosePageErrors == {"page.close: Protocol error"}

\* the instance: this.browser (a handle, or null), the browsers it has
\* launched and not closed, its calls of scrapeWebsite and of cleanup
WebScraperService ==
    [browser |-> NoBrowser, open |-> {}, launched |-> 0,
     call |-> [c \in PoolCallIds |-> ScraperInit],
     cleanup |-> [pc |-> "idle", handle |-> NoBrowser], cleanups |-> 0]

PoolInit ==
    /\ pool = WebScraperService
    /\ retry = Idle /\ scraper = Idle /\ mail = Idle /\ db = Idle /\ post = Idle
    /\ biz = Idle /\ bds = Idle /\ fn = Idle /\ net = Idle /\ claude = Idle
    /\ stats = Idle /\ patch = Idle

PoolFrame == UNCHANGED <<retry, scraper, mail, db, post, biz, bds, fn, net, claude, stats, patch>>

\* the call c as attemptScraping sees it: this.browser is read now
PoolView(c) == [pool.call[c] EXCEPT !.browser = pool.browser # NoBrowser]

NoScrapeInFlight == \A c \in PoolCallIds : pool.call[c].pc \in {"idle", "done"}

\* scrapeWebsite(url, maxRetries) is called, while others may be running
PoolScrapeCall(c, url, maxRetries) ==
    /\ pool.call[c].pc = "idle"
    /\ pool' = [pool EXCEPT !.call[c] = scrapeWebsite(PoolView(c), url, maxRetries)]
    /\ PoolFrame

\* this.browser = await chromium.launch(...): the call that found
\* this.browser null assigns the handle it launched when the launch resolves
PoolLaunch(c) ==
    /\ pool.call[c].pc = "launch"
    /\ \/ pool' = [pool EXCEPT !.browser = pool.launched + 1,
                               !.open = @ \cup {pool.launched + 1},
                               !.launched = @ + 1,
                               !.call[c] = [@ EXCEPT !.browser = TRUE, !.launches = @ + 1,
                                                     !.pc = "newPage"]]
       \/ \E message \in LaunchErrors, jitter \in PoolJitters :
            pool' = [pool EXCEPT !.call[c] =
                        AttemptSettled([@ EXCEPT !.launches = @ + 1],
                                       FALSE, AttemptFailure(message), jitter)]
    /\ PoolFrame

\* await this.browser.newPage()
PoolNewPage(c) ==
    /\ pool.call[c].pc = "newPage"
    /\ \/ pool' = [pool EXCEPT !.call[c] = [@ EXCEPT !.page = TRUE, !.pc = "navigate"]]
       \/ \E message \in NewPageErrors, jitter \in PoolJitters :
            pool' = [pool EXCEPT !.call[c] =
                        AttemptSettled(@, FALSE, AttemptFailure(message), jitter)]
    /\ PoolFrame

\* stealth measures, page.goto, the random delay and the extraction
PoolNavigate(c) ==
    /\ pool.call[c].pc = "navigate"
    /\ \/ \E data \in PoolPages :
            pool' = [pool EXCEPT !.call[c] =
                        [@ EXCEPT !.pending = AttemptSuccess(data), !.pc = "closePage"]]
       \/ \E message \in PoolNavigationErrors :
            pool' = [pool EXCEPT !.call[c] =
                        [@ EXCEPT !.pending = AttemptFailure(message), !.pc = "closePage"]]
    /\ PoolFrame

\* finally { await page.close() }
PoolClosePage(c) ==
    /\ pool.call[c].pc = "closePage"
    /\ \E jitter \in PoolJitters :
        \/ pool' = [pool EXCEPT !.call[c] =
                        AttemptSettled(@, FALSE, pool.call[c].pending, jitter)]
        \/ \E message \in PoolClosePageErrors :
            pool' = [pool EXCEPT !.call[c] = AttemptSettled(@, TRUE, message, jitter)]
    /\ PoolFrame

\* the backoff timer of retryWithBackoff fires: attemptScraping runs again
PoolBackoffTimer(c) ==
    /\ pool.call[c].pc = "wait"
    /\ pool' = [pool EXCEPT !.call[c] =
                    [@ EXCEPT !.loop = RetryAfterWait(@), !.pc = AttemptEntry(PoolView(c)),
                              !.browser = pool.browser # NoBrowser]]
    /\ PoolFrame

\* cleanup() is called: if (this.browser) { await this.browser.close(); ... }
PoolCleanupCall ==
    /\ pool.cleanup.pc = "idle"
    /\ pool.cleanups < MaxCleanups
    /\ pool' = IF pool.browser = NoBrowser
               THEN [pool EXCEPT !.cleanups = @ + 1]
               ELSE [pool EXCEPT !.cleanup = [pc |-> "closing", handle |-> pool.browser]]
    /\ PoolFrame

\* the close has resolved: this.browser = null, and cleanup returns
PoolCleanupClosed ==
    /\ pool.cleanup.pc = "closing"
    /\ pool' = [pool EXCEPT !.open = @ \ {pool.cleanup.handle},
                            !.browser = NoBrowser,
                            !.cleanup = [pc |-> "idle", handle |-> NoBrowser],
                            !.cleanups = @ + 1]
    /\ PoolFrame

PoolNext ==
    \/ \E c \in PoolCallIds, url \in PoolUrls, maxRetries \in 0..PoolMaxRetries :
            PoolScrapeCall(c, url, maxRetries)
    \/ \E c \in PoolCallIds : PoolLaunch(c)
    \/ \E c \in PoolCallIds : PoolNewPage(c)
    \/ \E c \in PoolCallIds : PoolNavigate(c)
    \/ \E c \in PoolCallIds : PoolClosePage(c)
    \/ \E c \in PoolCallIds : PoolBackoffTimer(c)
    \/ PoolCleanupCall
    \/ PoolCleanupClosed

PoolSpec == PoolInit /\ [][PoolNext]_vars

\* C26: at every moment at most one browser launched by the instance is
\* open, and when cleanup() has returned (this.browser is null again, no
\* cleanup is running) with no scrape in flight, no browser launched by
\* the instance remains open.
C26_SingleBrowserOwned ==
    /\ Cardinality(pool.open) <= 1
    /\ (/\ pool.cleanups > 0
        /\ pool.cleanup.pc = "idle"
        /\ pool.browser = NoBrowser
        /\ NoScrapeInFlight) => pool.open = {}

\* C27: in every state reachable through the API operations (save draft,
\* send, send-status PATCH, email PATCH, response-status PATCH), an
\* email's sentAt is non-null if and only if its sendStatus is 'sent'.
C27_SentAtIffSent ==
    \A id \in 1..Len(db.emails) :
        (db.emails[id].sentAt # NullTime) <=> (db.emails[id].sendStatus = "sent")

\* an email that was sent (its 'sent' event is recorded) and has since
\* been given another status, next to which sent_at is NULL again
C27_Witness ==
    \E id \in 1..Len(db.emails) :
        /\ db.emails[id].sendStatus = "failed"
        /\ db.emails[id].sentAt = NullTime
        /\ \E i \in 1..Len(db.analytics) :
            db.analytics[i].emailId = id /\ db.analytics[i].eventType = "sent"

\* C28: an email whose provider send succeeded is never recorded as
\* 'failed': in POST /api/emails, once sendEmail has returned success, the
\* email's final sendStatus is 'sent' even if a later database write (the
\* status update or the analytics insert) throws. (No other request having
\* written to the email.)
C28_DeliveredNeverFailed ==
    (post.pc # "idle" /\ post.sendResult.success /\ ~post.touched)
    => /\ PostRow.sendStatus # "failed"
       /\ post.pc = "done" => PostRow.sendStatus = "sent"

\* ---------------------------------------------------------------------
\* PATCH /api/emails/{id} observed: requests that fill the store, then one
\* PATCH whose answer is kept next to the emails table before and after it
\* ---------------------------------------------------------------------

PatchIdle == [pc |-> "idle", status |-> 0, before |-> <<>>, after |-> <<>>]

PatchInit ==
    /\ db = DbInit
    /\ patch = PatchIdle
    /\ retry = Idle /\ scraper = Idle /\ mail = Idle /\ post = Idle /\ biz = Idle
    /\ bds = Idle /\ fn = Idle /\ net = Idle /\ claude = Idle /\ pool = Idle
    /\ stats = Idle

\* the handler runs and answers
PatchAnswered(id, body, fault) ==
    LET answer == PatchEmailHandler(db, id, body, fault) IN
    /\ patch.pc = "idle"
    /\ db' = answer.db
    /\ patch' = [pc |-> "answered", status |-> answer.status,
                 before |-> db.emails, after |-> answer.db.emails]
    /\ UNCHANGED <<retry, scraper, mail, post, biz, bds, fn, net, claude, pool, stats>>

PatchRequest ==
    \/ \E body \in PostBodies, fault \in BOOLEAN : SaveDraftRequest(body, fault)
    \/ \E id \in StorePatchIds, body \in PatchBodies, fault \in PatchFaults :
          PatchEmail(id, body, fault)
    \/ Tick

PatchNext ==
    \/ patch.pc = "idle" /\ PatchRequest
    \/ \E id \in StorePatchIds, body \in PatchBodies, fault \in PatchFaults :
          PatchAnswered(id, body, fault)

PatchSpec == PatchInit /\ [][PatchNext]_vars

\* C29: PATCH /api/emails/{id} is all-or-nothing: whenever it answers with
\* an error status (400 for an invalid sendStatus or responseStatus, 404,
\* 500), the stored emails are as they were before the request, also when
\* the same request carried a valid htmlContent or sendStatus.
C29_PatchAllOrNothing ==
    (patch.pc = "answered" /\ patch.status >= 400) => patch.after = patch.before
=============================================================================
